---- MODULE Spec2Model ----
(***************************************************************************)
(* A model of the Flask application/request context stack, the request     *)
(* dispatch lifecycle, the setup-time registration of routes, hooks and    *)
(* blueprints, and the tagged JSON serializer.                             *)
(*                                                                         *)
(* Representation of Python values:                                        *)
(*   - a dotted name ("parent.child.view") is the sequence of its parts    *)
(*     (<<"parent","child","view">>); the empty sequence is both the empty *)
(*     string and the dict key None of the hook tables, so that            *)
(*     f"{a}.{b}".lstrip(".") is a \o b;                                   *)
(*   - a URL string is the sequence of its tokens, "/" being one token;    *)
(*   - a dict is a function whose DOMAIN is the set of keys present;       *)
(*   - a callback is a record [name, does]: does says what a call of it    *)
(*     does ("none": returns None, "value": returns a value, "raise":      *)
(*     raises a user error, "abort": raises NotFound).                     *)
(***************************************************************************)
EXTENDS Integers, Sequences, FiniteSets, TLC

\* --------------------------------------------------------------------------
\* Bounds
\* --------------------------------------------------------------------------
\* Number of setup calls explored before or after the import of a user module.
MaxSetupCalls == 1
\* Number of contexts a thread has pushed by hand when it calls wsgi_app.
MaxOuter == 1
\* Nesting depth of the values given to the tagged JSON serializer.
MaxNesting == 2
\* Number of contexts a thread pushes by hand, one inside the other.
MaxDepth == 2

\* --------------------------------------------------------------------------
\* Python values
\* --------------------------------------------------------------------------
None == "None"
NoName == <<>>
AppKey == <<>>
NoPath == <<"<None>">>
NoFunc == [name |-> "<None>", does |-> "none"]
NoBp == "<None>"

\* dict helpers
Has(d, k) == k \in DOMAIN d
Put(d, k, v) == [x \in (DOMAIN d) \cup {k} |-> IF x = k THEN v ELSE d[x]]
GetOr(d, k, dflt) == IF k \in DOMAIN d THEN d[k] ELSE dflt
EmptyDict == [x \in {} |-> NoFunc]
Without(d, ks) == [x \in (DOMAIN d) \ ks |-> d[x]]

\* list helpers
Rev(s) == [i \in 1..Len(s) |-> s[Len(s) + 1 - i]]
Front(s) == SubSeq(s, 1, Len(s) - 1)
Last(s) == s[Len(s)]
RECURSIVE Flatten(_)
Flatten(ss) == IF ss = <<>> THEN <<>> ELSE Head(ss) \o Flatten(Tail(ss))
Range(s) == {s[i] : i \in 1..Len(s)}

\* str.rstrip("/") and str.lstrip("/") on token sequences
RECURSIVE RStrip(_)
RStrip(p) == IF p # <<>> /\ Last(p) = "/" THEN RStrip(Front(p)) ELSE p
RECURSIVE LStrip(_)
LStrip(p) == IF p # <<>> /\ Head(p) = "/" THEN LStrip(Tail(p)) ELSE p

\* --------------------------------------------------------------------------
\* Exception classes (werkzeug.exceptions and a user-defined error)
\* --------------------------------------------------------------------------
MRO(cls) ==
    CASE cls = "NotFound" -> <<"NotFound", "HTTPException", "Exception">>
      [] cls = "InternalServerError" ->
             <<"InternalServerError", "HTTPException", "Exception">>
      [] cls = "HTTPException" -> <<"HTTPException", "Exception">>
      [] cls = "AppError" -> <<"AppError", "Exception">>
      [] cls = "TypeError" -> <<"TypeError", "Exception">>
      [] OTHER -> <<"Exception">>

IsHTTP(cls) == "HTTPException" \in Range(MRO(cls))

NoCode == 0
NoClass == "<None>"
ClassCode(cls) ==
    CASE cls = "NotFound" -> 404
      [] cls = "InternalServerError" -> 500
      [] OTHER -> NoCode

\* Scaffold._get_exc_class_and_code: an int is looked up in
\* default_exceptions (ValueError when unknown); a class is used as it is.
\* The argument is [code, cls]: an int (cls = NoClass) or a class.
get_exc_class_and_code(x) ==
    IF x.cls = NoClass
    THEN CASE x.code = 404 -> [cls |-> "NotFound", code |-> 404, exc |-> None]
           [] x.code = 500 ->
                  [cls |-> "InternalServerError", code |-> 500, exc |-> None]
           [] OTHER -> [cls |-> "Exception", code |-> NoCode, exc |-> "ValueError"]
    ELSE [cls |-> x.cls, code |-> ClassCode(x.cls), exc |-> None]

\* --------------------------------------------------------------------------
\* Scaffold / App / Blueprint objects
\* --------------------------------------------------------------------------
HookTables == {"before_request_funcs", "after_request_funcs",
               "teardown_request_funcs", "url_value_preprocessors",
               "url_default_functions", "template_context_processors"}

default_template_ctx_processor == [name |-> "_default_template_ctx_processor",
                                   does |-> "value"]
send_static_file == [name |-> "send_static_file", does |-> "value"]
StaticRule == <<"/", "static", "/", "<path:filename>">>

\* Scaffold.__init__
ScaffoldFields ==
    [view_functions |-> [x \in {} |-> NoFunc],
     error_handler_spec |-> [x \in {} |-> NoFunc],
     before_request_funcs |-> [x \in {} |-> <<>>],
     after_request_funcs |-> [x \in {} |-> <<>>],
     teardown_request_funcs |-> [x \in {} |-> <<>>],
     template_context_processors |->
         [x \in {AppKey} |-> <<default_template_ctx_processor>>],
     url_value_preprocessors |-> [x \in {} |-> <<>>],
     url_default_functions |-> [x \in {} |-> <<>>]]

\* App.__init__ followed by Flask.__init__, which adds the static route.
NewApp(propagate) ==
    [view_functions |-> [x \in {<<"static">>} |-> send_static_file],
     error_handler_spec |-> ScaffoldFields.error_handler_spec,
     before_request_funcs |-> ScaffoldFields.before_request_funcs,
     after_request_funcs |-> ScaffoldFields.after_request_funcs,
     teardown_request_funcs |-> ScaffoldFields.teardown_request_funcs,
     template_context_processors |-> ScaffoldFields.template_context_processors,
     url_value_preprocessors |-> ScaffoldFields.url_value_preprocessors,
     url_default_functions |-> ScaffoldFields.url_default_functions,
     teardown_appcontext_funcs |-> <<>>,
     blueprints |-> [x \in {} |-> NoBp],
     url_map |-> <<[rule |-> StaticRule, endpoint |-> <<"static">>]>>,
     propagate_exceptions |-> propagate,
     secret_key |-> FALSE,
     _got_first_request |-> FALSE]

\* Blueprint.__init__ (no static folder, which is the default)
NewBlueprint(name, url_prefix) ==
    [view_functions |-> ScaffoldFields.view_functions,
     error_handler_spec |-> ScaffoldFields.error_handler_spec,
     before_request_funcs |-> ScaffoldFields.before_request_funcs,
     after_request_funcs |-> ScaffoldFields.after_request_funcs,
     teardown_request_funcs |-> ScaffoldFields.teardown_request_funcs,
     template_context_processors |-> ScaffoldFields.template_context_processors,
     url_value_preprocessors |-> ScaffoldFields.url_value_preprocessors,
     url_default_functions |-> ScaffoldFields.url_default_functions,
     name |-> name,
     url_prefix |-> url_prefix,
     deferred_functions |-> <<>>,
     _blueprints |-> <<>>,
     _got_registered_once |-> FALSE]

\* --------------------------------------------------------------------------
\* Setup methods.  A setup state st is [app, bps, called]: the application,
\* the blueprint objects, and the trace of user callbacks that
\* Blueprint.record / record_once callbacks have been called with.
\* A setup method returns [app, bps, called, exc]; exc is the exception it
\* raised, or None.
\* --------------------------------------------------------------------------
Ok(st) == [app |-> st.app, bps |-> st.bps, called |-> st.called, exc |-> None]
Raise(st, e) == [app |-> st.app, bps |-> st.bps, called |-> st.called, exc |-> e]
WithApp(st, A) == [app |-> A, bps |-> st.bps, called |-> st.called]
WithBp(st, b, B) ==
    [app |-> st.app, bps |-> [st.bps EXCEPT ![b] = B], called |-> st.called]
StOf(r) == [app |-> r.app, bps |-> r.bps, called |-> r.called]

\* App._check_setup_finished
App_check_setup_finished_off(A) == None
App_check_setup_finished(A) ==
    IF A._got_first_request THEN "AssertionError" ELSE None

\* Blueprint._check_setup_finished
Blueprint_check_setup_finished_off(B) == None
Blueprint_check_setup_finished(B) ==
    IF B._got_registered_once THEN "AssertionError" ELSE None

\* setupmethod: wrapper_func checks, then calls the wrapped method.
setupmethod(check, st, r) == IF check # None THEN Raise(st, check) ELSE r

\* _endpoint_from_view_func
endpoint_from_view_func(view_func) == <<view_func.name>>

\* dict.setdefault(None, []).append(f)  /  defaultdict[None].append(f)
AppendAt(d, k, f) == Put(d, k, GetOr(d, k, <<>>) \o <<f>>)

\* Scaffold.endpoint(endpoint)(f)
Scaffold_endpoint(s, endpoint, f) ==
    [s EXCEPT !.view_functions = Put(@, endpoint, f)]
\* Scaffold.before_request and its siblings
Scaffold_before_request(s, f) ==
    [s EXCEPT !.before_request_funcs = AppendAt(@, AppKey, f)]
Scaffold_after_request(s, f) ==
    [s EXCEPT !.after_request_funcs = AppendAt(@, AppKey, f)]
Scaffold_teardown_request(s, f) ==
    [s EXCEPT !.teardown_request_funcs = AppendAt(@, AppKey, f)]
Scaffold_context_processor(s, f) ==
    [s EXCEPT !.template_context_processors = AppendAt(@, AppKey, f)]
Scaffold_url_value_preprocessor(s, f) ==
    [s EXCEPT !.url_value_preprocessors = AppendAt(@, AppKey, f)]
Scaffold_url_defaults(s, f) ==
    [s EXCEPT !.url_default_functions = AppendAt(@, AppKey, f)]
\* Scaffold.register_error_handler (errorhandler(code)(f) calls it):
\* error_handler_spec[None][code][exc_class] = f, kept as a flat dict
\* keyed by <<key, code, exc_class>>.
Scaffold_register_error_handler(s, code_or_exception, f) ==
    LET cc == get_exc_class_and_code(code_or_exception)
    IN  [s EXCEPT !.error_handler_spec = Put(@, <<AppKey, cc.code, cc.cls>>, f)]

\* App.add_url_rule (the body under @setupmethod)
App_add_url_rule_body_overwriting(st, rule, endpoint, view_func) ==
    IF endpoint = NoName /\ view_func = NoFunc
    THEN Raise(st, "AssertionError")
    ELSE
    LET ep == IF endpoint = NoName THEN endpoint_from_view_func(view_func)
              ELSE endpoint
        A1 == [st.app EXCEPT !.url_map =
                  Append(@, [rule |-> rule, endpoint |-> ep])]
    IN  IF view_func = NoFunc THEN Ok(WithApp(st, A1))
        ELSE Ok(WithApp(st, [A1 EXCEPT !.view_functions = Put(@, ep, view_func)]))
App_add_url_rule_body(st, rule, endpoint, view_func) ==
    IF endpoint = NoName /\ view_func = NoFunc
    THEN Raise(st, "AssertionError")
    ELSE
    LET ep == IF endpoint = NoName THEN endpoint_from_view_func(view_func)
              ELSE endpoint
        A1 == [st.app EXCEPT !.url_map =
                  Append(@, [rule |-> rule, endpoint |-> ep])]
        old_func == GetOr(A1.view_functions, ep, NoFunc)
    IN  IF view_func = NoFunc THEN Ok(WithApp(st, A1))
        ELSE IF old_func # NoFunc /\ old_func # view_func
             THEN Raise(WithApp(st, A1), "AssertionError")
             ELSE Ok(WithApp(st, [A1 EXCEPT !.view_functions =
                                     Put(@, ep, view_func)]))

App_add_url_rule(st, rule, endpoint, view_func) ==
    setupmethod(App_check_setup_finished(st.app), st,
                App_add_url_rule_body(st, rule, endpoint, view_func))

\* App.teardown_appcontext
App_teardown_appcontext(st, f) ==
    setupmethod(App_check_setup_finished(st.app), st,
        Ok(WithApp(st, [st.app EXCEPT !.teardown_appcontext_funcs =
                           Append(@, f)])))

\* The Scaffold methods called on the application
App_scaffold(st, A1) ==
    setupmethod(App_check_setup_finished(st.app), st, Ok(WithApp(st, A1)))

App_register_error_handler(st, code_or_exception, f) ==
    setupmethod(App_check_setup_finished(st.app), st,
        LET cc == get_exc_class_and_code(code_or_exception)
        IN  IF cc.exc # None THEN Raise(st, cc.exc)
            ELSE Ok(WithApp(st,
                  Scaffold_register_error_handler(st.app, code_or_exception, f))))

\* --------------------------------------------------------------------------
\* Blueprints
\* --------------------------------------------------------------------------
\* A deferred function of Blueprint.deferred_functions.  kind says what the
\* recorded callable does with the BlueprintSetupState:
\*   "add_url_rule"     the lambda of Blueprint.add_url_rule
\*   "record"           a user callback
\*   "app_hook"         the lambda of before_app_request and its siblings
\*   "app_errorhandler" from_blueprint of app_errorhandler
\* once marks the wrapper of record_once.
Deferred(kind, once, f) ==
    [kind |-> kind, once |-> once, f |-> f, rule |-> <<>>, endpoint |-> NoName,
     table |-> "", code |-> [code |-> NoCode, cls |-> NoClass]]

\* Registration options (**options of register_blueprint)
Options(name, url_prefix) ==
    [name |-> name, name_prefix |-> NoName, url_prefix |-> url_prefix]

\* BlueprintSetupState.__init__
BlueprintSetupState(B, options, first_registration) ==
    [first_registration |-> first_registration,
     url_prefix |-> IF options.url_prefix = NoPath THEN B.url_prefix
                    ELSE options.url_prefix,
     name |-> IF options.name = NoName THEN B.name ELSE options.name,
     name_prefix |-> options.name_prefix]

\* BlueprintSetupState.add_url_rule
State_add_url_rule(st, state, rule, endpoint, view_func) ==
    IF endpoint = NoName /\ view_func = NoFunc
    THEN Raise(st, "AssertionError")
    ELSE
    LET r == IF state.url_prefix # NoPath
             THEN IF rule # <<>>
                  THEN RStrip(state.url_prefix) \o <<"/">> \o LStrip(rule)
                  ELSE state.url_prefix
             ELSE rule
        ep == IF endpoint = NoName THEN endpoint_from_view_func(view_func)
              ELSE endpoint
    IN  App_add_url_rule(st, r, state.name_prefix \o state.name \o ep, view_func)

\* Calling one deferred function with the setup state
RunDeferred(st, state, d) ==
    IF d.once /\ ~state.first_registration THEN Ok(st)
    ELSE CASE d.kind = "add_url_rule" ->
                State_add_url_rule(st, state, d.rule, d.endpoint, d.f)
           [] d.kind = "record" ->
                LET st1 == [st EXCEPT !.called = Append(@,
                               [f |-> d.f.name,
                                name |-> state.name_prefix \o state.name])]
                IN  IF d.f.does = "raise" THEN Raise(st1, "AppError") ELSE Ok(st1)
           [] d.kind = "app_hook" ->
                Ok(WithApp(st, [st.app EXCEPT ![d.table] = AppendAt(@, AppKey, d.f)]))
           [] d.kind = "app_errorhandler" ->
                App_register_error_handler(st, d.code, d.f)

\* for deferred in self.deferred_functions: deferred(state)
RECURSIVE RunDeferredList(_, _, _)
RunDeferredList(st, state, ds) ==
    IF ds = <<>> THEN Ok(st)
    ELSE LET r == RunDeferred(st, state, Head(ds))
         IN  IF r.exc # None THEN r
             ELSE RunDeferredList(StOf(r), state, Tail(ds))

\* Blueprint._merge_blueprint_funcs: extend(bp_dict, parent_dict)
extend_unordered(bp_dict, parent_dict, name) ==
    [k \in (DOMAIN parent_dict) \cup {name \o key : key \in DOMAIN bp_dict} |->
        LET mine == {key \in DOMAIN bp_dict : name \o key = k}
        IN  IF mine = {} THEN parent_dict[k]
            ELSE Rev(bp_dict[CHOOSE key \in mine : TRUE])
                   \o GetOr(parent_dict, k, <<>>)]
extend(bp_dict, parent_dict, name) ==
    [k \in (DOMAIN parent_dict) \cup {name \o key : key \in DOMAIN bp_dict} |->
        LET mine == {key \in DOMAIN bp_dict : name \o key = k}
        IN  IF mine = {} THEN parent_dict[k]
            ELSE GetOr(parent_dict, k, <<>>)
                   \o bp_dict[CHOOSE key \in mine : TRUE]]

\* Blueprint._merge_blueprint_funcs
merge_blueprint_funcs(A, B, name) ==
    LET newkeys == {name \o k[1] : k \in DOMAIN B.error_handler_spec}
        kept == Without(A.error_handler_spec,
                        {k \in DOMAIN A.error_handler_spec : k[1] \in newkeys})
        spec == [k \in (DOMAIN kept) \cup
                       {<<name \o j[1], j[2], j[3]>> : j \in DOMAIN B.error_handler_spec}
                 |-> IF k \in DOMAIN kept THEN kept[k]
                     ELSE B.error_handler_spec[
                            CHOOSE j \in DOMAIN B.error_handler_spec :
                               <<name \o j[1], j[2], j[3]>> = k]]
        views == [e \in (DOMAIN A.view_functions) \cup (DOMAIN B.view_functions) |->
                    IF e \in DOMAIN B.view_functions THEN B.view_functions[e]
                    ELSE A.view_functions[e]]
    IN  [A EXCEPT
           !.error_handler_spec = spec,
           !.view_functions = views,
           !.before_request_funcs = extend(B.before_request_funcs, @, name),
           !.after_request_funcs = extend(B.after_request_funcs, @, name),
           !.teardown_request_funcs = extend(B.teardown_request_funcs, @, name),
           !.url_default_functions = extend(B.url_default_functions, @, name),
           !.url_value_preprocessors = extend(B.url_value_preprocessors, @, name),
           !.template_context_processors =
               extend(B.template_context_processors, @, name)]

\* The url_prefix a nested blueprint is registered with (register, the loop
\* over self._blueprints)
NestedUrlPrefix(state_prefix, bp_options, child) ==
    LET bp_url_prefix == IF bp_options.url_prefix = NoPath THEN child.url_prefix
                         ELSE bp_options.url_prefix
    IN  IF state_prefix # NoPath /\ bp_url_prefix # NoPath
        THEN RStrip(state_prefix) \o <<"/">> \o LStrip(bp_url_prefix)
        ELSE IF bp_url_prefix # NoPath THEN bp_url_prefix
        ELSE IF state_prefix # NoPath THEN state_prefix
        ELSE bp_options.url_prefix

\* Blueprint.register raises ValueError when the name is taken.
NameTaken_different_only(A, name, b) == Has(A.blueprints, name) /\ A.blueprints[name] # b
NameTaken(A, name, b) == Has(A.blueprints, name)

RECURSIVE Blueprint_register(_, _, _)
RECURSIVE RegisterNested(_, _, _, _)

\* Blueprint.register
Blueprint_register(st, b, options) ==
    LET self == st.bps[b]
        self_name == IF options.name = NoName THEN self.name ELSE options.name
        name == options.name_prefix \o self_name
    IN  IF NameTaken(st.app, name, b) THEN Raise(st, "ValueError")
        ELSE
        LET first_bp_registration ==
                ~ \E k \in DOMAIN st.app.blueprints : st.app.blueprints[k] = b
            first_name_registration == ~ Has(st.app.blueprints, name)
            A1 == [st.app EXCEPT !.blueprints = Put(@, name, b)]
            B1 == [self EXCEPT !._got_registered_once = TRUE]
            state == BlueprintSetupState(self, options, first_bp_registration)
            A2 == IF first_bp_registration \/ first_name_registration
                  THEN merge_blueprint_funcs(A1, self, name)
                  ELSE A1
            st2 == WithBp(WithApp(st, A2), b, B1)
            r == RunDeferredList(st2, state, self.deferred_functions)
        IN  IF r.exc # None THEN r
            ELSE RegisterNested(StOf(r), state, name, self._blueprints)

\* for blueprint, bp_options in self._blueprints: ... blueprint.register(...)
RegisterNested(st, state, name, nested) ==
    IF nested = <<>> THEN Ok(st)
    ELSE LET n == Head(nested)
             opts == [name |-> n.options.name,
                      name_prefix |-> name,
                      url_prefix |-> NestedUrlPrefix(state.url_prefix, n.options,
                                                     st.bps[n.bp])]
             r == Blueprint_register(st, n.bp, opts)
         IN  IF r.exc # None THEN r
             ELSE RegisterNested(StOf(r), state, name, Tail(nested))

\* App.register_blueprint
App_register_blueprint(st, b, options) ==
    setupmethod(App_check_setup_finished(st.app), st,
                Blueprint_register(st, b, options))

\* The Scaffold methods called on a blueprint
Bp_scaffold(st, b, B1) ==
    setupmethod(Blueprint_check_setup_finished(st.bps[b]), st, Ok(WithBp(st, b, B1)))

Bp_register_error_handler(st, b, code_or_exception, f) ==
    setupmethod(Blueprint_check_setup_finished(st.bps[b]), st,
        LET cc == get_exc_class_and_code(code_or_exception)
        IN  IF cc.exc # None THEN Raise(st, cc.exc)
            ELSE Ok(WithBp(st, b,
                  Scaffold_register_error_handler(st.bps[b], code_or_exception, f))))

\* Blueprint.record
Blueprint_record(st, b, d) ==
    setupmethod(Blueprint_check_setup_finished(st.bps[b]), st,
        Ok(WithBp(st, b, [st.bps[b] EXCEPT !.deferred_functions = Append(@, d)])))

\* Blueprint.record_once: records a wrapper that calls func only when
\* state.first_registration
Blueprint_record_once_unwrapped(st, b, d) ==
    setupmethod(Blueprint_check_setup_finished(st.bps[b]), st,
        Blueprint_record(st, b, d))
Blueprint_record_once(st, b, d) ==
    setupmethod(Blueprint_check_setup_finished(st.bps[b]), st,
        Blueprint_record(st, b, [d EXCEPT !.once = TRUE]))

\* Blueprint.add_url_rule
Blueprint_add_url_rule(st, b, rule, endpoint, view_func) ==
    setupmethod(Blueprint_check_setup_finished(st.bps[b]), st,
        IF Len(endpoint) > 1 THEN Raise(st, "ValueError")
        ELSE Blueprint_record(st, b,
                [Deferred("add_url_rule", FALSE, view_func)
                    EXCEPT !.rule = rule, !.endpoint = endpoint]))

\* Blueprint.register_blueprint
Blueprint_register_blueprint(st, b, child, options) ==
    setupmethod(Blueprint_check_setup_finished(st.bps[b]), st,
        IF child = b THEN Raise(st, "ValueError")
        ELSE Ok(WithBp(st, b, [st.bps[b] EXCEPT !._blueprints =
                                  Append(@, [bp |-> child, options |-> options])])))

\* Blueprint.before_app_request and its siblings (table names the app's table)
Blueprint_app_hook(st, b, table, f) ==
    setupmethod(Blueprint_check_setup_finished(st.bps[b]), st,
        Blueprint_record_once(st, b,
            [Deferred("app_hook", FALSE, f) EXCEPT !.table = table]))

\* Blueprint.app_errorhandler(code)(f)
Blueprint_app_errorhandler(st, b, code, f) ==
    setupmethod(Blueprint_check_setup_finished(st.bps[b]), st,
        Blueprint_record_once(st, b,
            [Deferred("app_errorhandler", FALSE, f) EXCEPT !.code = code]))

\* --------------------------------------------------------------------------
\* Setup calls: the inputs of the setup phase
\* --------------------------------------------------------------------------
F1 == [name |-> "f", does |-> "none"]
F2 == [name |-> "g", does |-> "value"]
F3 == [name |-> "h", does |-> "raise"]

BPs == {"parent", "child"}
\* Blueprint(name, __name__, url_prefix=...) of each blueprint object
BpName(b) == <<b>>
BpUrlPrefix(b) == IF b = "parent" THEN <<"/", "p">> ELSE NoPath

Call(op, f) ==
    [op |-> op, f |-> f, rule |-> <<>>, endpoint |-> NoName,
     code |-> [code |-> NoCode, cls |-> NoClass], bp |-> NoBp,
     options |-> Options(NoName, NoPath), table |-> ""]

HookOps == {"before_request", "after_request", "teardown_request",
            "context_processor", "url_value_preprocessor", "url_defaults"}

RuleX == <<"/", "x">>
RouteCalls ==
    {[Call("add_url_rule", f) EXCEPT !.rule = RuleX, !.endpoint = e] :
        f \in {NoFunc, F1, F2}, e \in {NoName, <<"x">>}}
EndpointCalls ==
    {[Call("endpoint", f) EXCEPT !.endpoint = <<"x">>] : f \in {F1, F2}}
ErrorHandlerCalls ==
    {[Call("register_error_handler", F2) EXCEPT !.code = c] :
        c \in {[code |-> 404, cls |-> NoClass], [code |-> NoCode, cls |-> "AppError"],
               [code |-> 999, cls |-> NoClass]}}
HookCalls ==
    {Call(op, F1) : op \in HookOps} \cup {Call("before_request", F2)}

AppCalls ==
    HookCalls \cup RouteCalls \cup EndpointCalls \cup ErrorHandlerCalls
    \cup {Call("teardown_appcontext", F1)}
    \cup {[Call("register_blueprint", NoFunc) EXCEPT
              !.bp = b, !.options = Options(n, NoPath)] :
            b \in BPs, n \in {NoName, <<"alt">>, <<"parent">>}}

BpCalls(b) ==
    HookCalls \cup RouteCalls \cup EndpointCalls \cup ErrorHandlerCalls
    \cup {Call("record", F1), Call("record", F3), Call("record_once", F2)}
    \cup {[Call("before_app_request", F1) EXCEPT !.table = "before_request_funcs"],
          [Call("after_app_request", F1) EXCEPT !.table = "after_request_funcs"],
          [Call("app_errorhandler", F2) EXCEPT
              !.code = [code |-> 404, cls |-> NoClass]]}
    \cup {[Call("register_blueprint", NoFunc) EXCEPT
              !.bp = c, !.options = Options(NoName, u)] :
            c \in {b, "child"}, u \in {NoPath, <<"/", "c">>}}

\* One setup call on the application
ApplyApp(st, c) ==
    CASE c.op = "before_request" ->
            App_scaffold(st, Scaffold_before_request(st.app, c.f))
      [] c.op = "after_request" ->
            App_scaffold(st, Scaffold_after_request(st.app, c.f))
      [] c.op = "teardown_request" ->
            App_scaffold(st, Scaffold_teardown_request(st.app, c.f))
      [] c.op = "context_processor" ->
            App_scaffold(st, Scaffold_context_processor(st.app, c.f))
      [] c.op = "url_value_preprocessor" ->
            App_scaffold(st, Scaffold_url_value_preprocessor(st.app, c.f))
      [] c.op = "url_defaults" ->
            App_scaffold(st, Scaffold_url_defaults(st.app, c.f))
      [] c.op = "endpoint" ->
            App_scaffold(st, Scaffold_endpoint(st.app, c.endpoint, c.f))
      [] c.op = "register_error_handler" ->
            App_register_error_handler(st, c.code, c.f)
      [] c.op = "add_url_rule" ->
            App_add_url_rule(st, c.rule, c.endpoint, c.f)
      [] c.op = "teardown_appcontext" ->
            App_teardown_appcontext(st, c.f)
      [] c.op = "register_blueprint" ->
            App_register_blueprint(st, c.bp, c.options)

\* One setup call on blueprint b
ApplyBp(st, b, c) ==
    CASE c.op = "before_request" ->
            Bp_scaffold(st, b, Scaffold_before_request(st.bps[b], c.f))
      [] c.op = "after_request" ->
            Bp_scaffold(st, b, Scaffold_after_request(st.bps[b], c.f))
      [] c.op = "teardown_request" ->
            Bp_scaffold(st, b, Scaffold_teardown_request(st.bps[b], c.f))
      [] c.op = "context_processor" ->
            Bp_scaffold(st, b, Scaffold_context_processor(st.bps[b], c.f))
      [] c.op = "url_value_preprocessor" ->
            Bp_scaffold(st, b, Scaffold_url_value_preprocessor(st.bps[b], c.f))
      [] c.op = "url_defaults" ->
            Bp_scaffold(st, b, Scaffold_url_defaults(st.bps[b], c.f))
      [] c.op = "endpoint" ->
            Bp_scaffold(st, b, Scaffold_endpoint(st.bps[b], c.endpoint, c.f))
      [] c.op = "register_error_handler" ->
            Bp_register_error_handler(st, b, c.code, c.f)
      [] c.op = "add_url_rule" ->
            Blueprint_add_url_rule(st, b, c.rule, c.endpoint, c.f)
      [] c.op = "record" ->
            Blueprint_record(st, b, Deferred("record", FALSE, c.f))
      [] c.op = "record_once" ->
            Blueprint_record_once(st, b, Deferred("record", FALSE, c.f))
      [] c.op \in {"before_app_request", "after_app_request"} ->
            Blueprint_app_hook(st, b, c.table, c.f)
      [] c.op = "app_errorhandler" ->
            Blueprint_app_errorhandler(st, b, c.code, c.f)
      [] c.op = "register_blueprint" ->
            Blueprint_register_blueprint(st, b, c.bp, c.options)

\* One setup call on the application ("app") or on a blueprint
Apply(st, on, c) == IF on = "app" THEN ApplyApp(st, c) ELSE ApplyBp(st, on, c)

\* The top-level code of a user module: setup calls run one after the other;
\* the first exception ends the import.  Returns the state reached, the
\* last call made and what it raised.
RECURSIVE RunSetup(_, _, _)
RunSetup(st, steps, last) ==
    IF steps = <<>> \/ last.exc # None
    THEN [app |-> st.app, bps |-> st.bps, called |-> st.called, last |-> last]
    ELSE LET s == Head(steps)
             r == Apply(st, s.on, s.call)
         IN  RunSetup(StOf(r), Tail(steps),
                      [on |-> s.on, call |-> s.call, exc |-> r.exc])

On(on, c) == [on |-> on, call |-> c]
Route(rule, endpoint, f) ==
    [Call("add_url_rule", f) EXCEPT !.rule = rule, !.endpoint = endpoint]
EndpointCall(endpoint, f) == [Call("endpoint", f) EXCEPT !.endpoint = endpoint]
ErrorHandler(code, cls, f) ==
    [Call("register_error_handler", f) EXCEPT !.code = [code |-> code, cls |-> cls]]
RegisterBp(b, name, url_prefix) ==
    [Call("register_blueprint", NoFunc) EXCEPT
        !.bp = b, !.options = Options(name, url_prefix)]

\* A blueprint with every kind of registration, not yet registered
ModFlat ==
    <<On("parent", Call("before_request", F1)),
      On("parent", Call("before_request", F2)),
      On("parent", Call("after_request", F1)),
      On("parent", Call("after_request", F2)),
      On("parent", Call("teardown_request", F1)),
      On("parent", Call("url_value_preprocessor", F1)),
      On("parent", Call("url_defaults", F1)),
      On("parent", Call("context_processor", F1)),
      On("parent", ErrorHandler(NoCode, "AppError", F2)),
      On("parent", EndpointCall(<<"y">>, F1)),
      On("parent", Route(RuleX, NoName, F2)),
      On("parent", Call("record", F1)),
      On("parent", Call("record_once", F2)),
      On("app", Call("before_request", F1))>>
\* ... and registered on the application
ModFlatRegistered == ModFlat \o <<On("app", RegisterBp("parent", NoName, NoPath))>>
\* A route recorded without a view function
ModNoView ==
    <<On("child", Route(RuleX, <<"x">>, NoFunc)),
      On("child", Call("before_request", F2))>>
\* A blueprint nested in another one, both using the endpoint "x"
ModNested ==
    <<On("parent", EndpointCall(<<"x">>, F1)),
      On("child", EndpointCall(<<"x">>, F2)),
      On("child", Call("before_request", F1)),
      On("child", Route(RuleX, NoName, F1)),
      On("parent", Call("url_value_preprocessor", F2)),
      On("parent", RegisterBp("child", NoName, <<"/", "c">>))>>
ModNestedRegistered == ModNested \o <<On("app", RegisterBp("parent", NoName, NoPath))>>

\* An application route with an endpoint of its own
ModRoute == <<On("app", Route(RuleX, <<"x">>, F1))>>

SetupModules ==
    {ModFlat, ModFlatRegistered, ModNoView, ModNested, ModNestedRegistered,
     ModRoute}

\* View functions and further callbacks of the served applications
V_index == [name |-> "index", does |-> "value"]
V_boom == [name |-> "boom", does |-> "raise"]
V_gone == [name |-> "gone", does |-> "abort"]
V_none == [name |-> "none", does |-> "none"]
F4 == [name |-> "k", does |-> "value"]

\* An application with views that return, raise, abort and return None, and
\* one function of every request hook
ModServe ==
    <<On("app", Route(<<"/">>, NoName, V_index)),
      On("app", Route(<<"/", "boom">>, NoName, V_boom)),
      On("app", Route(<<"/", "gone">>, NoName, V_gone)),
      On("app", Route(<<"/", "none">>, NoName, V_none)),
      On("app", Call("url_value_preprocessor", F1)),
      On("app", Call("before_request", F1)),
      On("app", Call("after_request", F2)),
      On("app", Call("teardown_request", F1)),
      On("app", Call("teardown_appcontext", F1))>>
\* The same with error handlers for the user error, 404 and 500
ModHandlers ==
    ModServe \o
    <<On("app", ErrorHandler(NoCode, "AppError", F2)),
      On("app", ErrorHandler(404, NoClass, F2)),
      On("app", ErrorHandler(500, NoClass, F2))>>
\* before_request functions the second of which returns a response
ModBefore ==
    ModServe \o
    <<On("app", Call("before_request", F2)),
      On("app", Call("before_request", F4))>>
\* An after_request function that raises
ModAfterRaises == ModServe \o <<On("app", Call("after_request", F3))>>
\* Nested blueprints with hooks of their own, next to the application's
ModBlueprints == ModServe \o ModNestedRegistered

\* Two functions of every request hook on the application, on blueprint
\* "parent" and on blueprint "child" nested in it, registered innermost
\* first; the view of the nested blueprint calls after_this_request.
Fn(n) == [name |-> n, does |-> "none"]
Rn(n) == [name |-> n, does |-> "replace"]
V_later == [name |-> "later", does |-> "after_this_request"]
HooksOn(on, n) ==
    <<On(on, Call("url_value_preprocessor", Fn(n \o "1"))),
      On(on, Call("url_value_preprocessor", Fn(n \o "2"))),
      On(on, Call("before_request", Fn(n \o "1"))),
      On(on, Call("before_request", Fn(n \o "2"))),
      On(on, Call("after_request", Rn(n \o "1"))),
      On(on, Call("after_request", Rn(n \o "2"))),
      On(on, Call("teardown_request", Fn(n \o "1"))),
      On(on, Call("teardown_request", Fn(n \o "2")))>>
ModOrder ==
    <<On("child", Route(RuleX, NoName, V_later))>> \o
    HooksOn("child", "c") \o HooksOn("parent", "p") \o
    <<On("parent", RegisterBp("child", NoName, <<"/", "c">>)),
      On("app", Route(<<"/">>, NoName, V_index)),
      On("app", Route(<<"/", "boom">>, NoName, V_boom))>> \o
    HooksOn("app", "a") \o
    <<On("app", Call("teardown_appcontext", Fn("a1"))),
      On("app", Call("teardown_appcontext", Fn("a2"))),
      On("app", RegisterBp("parent", NoName, NoPath))>>

ServeModules ==
    {ModServe, ModHandlers, ModBefore, ModAfterRaises, ModBlueprints, ModOrder}

\* The request paths
Paths == {<<"/">>, <<"/", "boom">>, <<"/", "gone">>, <<"/", "none">>,
          <<"/", "nope">>, <<"/", "p", "/", "c", "/", "x">>}

\* --------------------------------------------------------------------------
\* Context variables and context objects (globals.py, ctx.py)
\* --------------------------------------------------------------------------
\* The threads (execution contexts) of the process
Threads == {"t1", "t2"}
Slots == 1..(MaxDepth + 1)
\* A context object is named by the thread that created it and a slot.
CtxIds == Threads \X Slots
NoCtx == <<"", 0>>
\* Two Flask applications: "app", whose tables are modelled, and "other",
\* a second application with nothing registered.
FlaskApps == {"app", "other"}

\* A ContextVar holds one value per execution context (thread or task).
\* ContextVar.get(None)
cv_get(cv, t) == cv[t]
\* ContextVar.set(value); the token it returns is the value replaced
cv_set_global(cv, t, v) == [x \in DOMAIN cv |-> v]
cv_set(cv, t, v) == [cv EXCEPT ![t] = v]
\* ContextVar.reset(token)
cv_reset_clear(cv, t, token) == [cv EXCEPT ![t] = NoCtx]
cv_reset(cv, t, token) == [cv EXCEPT ![t] = token]

\* AppContext.__init__ / an unused slot
NoAppContext == [app |-> "", cv_tokens |-> <<>>]
NewAppContext(a) == [app |-> a, cv_tokens |-> <<>>]

\* --------------------------------------------------------------------------
\* Sessions (sessions.py)
\* --------------------------------------------------------------------------
\* A session object: the dict it holds (data), the flags of
\* SecureCookieSession, and null for an instance of NullSession.  "of" is
\* the request context that opened it.
NoData == [x \in {} |-> ""]
NewSession(r, null, data) ==
    [of |-> r, null |-> null, data |-> data, modified |-> FALSE,
     accessed |-> FALSE]
\* ctx.session is None
NoSession == NewSession(NoCtx, FALSE, NoData)

\* The result of a method call on a session: the session afterwards, the
\* exception raised and the value returned (<<>> for None, else <<value>>)
SessionResult(s, exc, rv) == [s |-> s, exc |-> exc, rv |-> rv]

\* on_update of SecureCookieSession.__init__
on_update(s) == [s EXCEPT !.modified = TRUE, !.accessed = TRUE]

\* The methods of SecureCookieSession: those of dict, with on_update called
\* by CallbackDict after a call that changed the dict, and accessed set by
\* __getitem__, get and setdefault.
SecureCookieSession_call(s, op, k, v) ==
    LET has == Has(s.data, k)
        read == [s EXCEPT !.accessed = TRUE]
    IN  CASE op = "__setitem__" ->
                 SessionResult(on_update([s EXCEPT !.data = Put(@, k, v)]), None, <<>>)
          [] op = "__delitem__" ->
                 IF has
                 THEN SessionResult(on_update([s EXCEPT !.data = Without(@, {k})]),
                                    None, <<>>)
                 ELSE SessionResult(s, "KeyError", <<>>)
          [] op = "clear" ->
                 SessionResult(on_update([s EXCEPT !.data = NoData]), None, <<>>)
          [] op = "pop" ->
                 IF has
                 THEN SessionResult(on_update([s EXCEPT !.data = Without(@, {k})]),
                                    None, <<s.data[k]>>)
                 ELSE SessionResult(s, "KeyError", <<>>)
          [] op = "popitem" ->
                 IF s.data # NoData
                 THEN LET last == CHOOSE x \in DOMAIN s.data : TRUE
                      IN  SessionResult(
                              on_update([s EXCEPT !.data = Without(@, {last})]),
                              None, <<s.data[last]>>)
                 ELSE SessionResult(s, "KeyError", <<>>)
          [] op = "update" ->
                 SessionResult(on_update([s EXCEPT !.data = Put(@, k, v)]), None, <<>>)
          [] op = "setdefault" ->
                 IF has THEN SessionResult(read, None, <<s.data[k]>>)
                 ELSE SessionResult(on_update([s EXCEPT !.data = Put(@, k, v)]),
                                    None, <<v>>)
          [] op = "__getitem__" ->
                 IF has THEN SessionResult(read, None, <<s.data[k]>>)
                 ELSE SessionResult(read, "KeyError", <<>>)
          [] op = "get" ->
                 SessionResult(read, None, IF has THEN <<s.data[k]>> ELSE <<>>)
          [] op = "__contains__" -> SessionResult(s, None, <<has>>)
          [] op = "__len__" -> SessionResult(s, None, <<Cardinality(DOMAIN s.data)>>)

\* NullSession._fail
NullSession_fail(s) == SessionResult(s, "RuntimeError", <<>>)
\* The names NullSession binds to _fail
NullSession_fails_but_setdefault ==
    {"__setitem__", "__delitem__", "clear", "pop", "popitem", "update"}
NullSession_fails ==
    {"__setitem__", "__delitem__", "clear", "pop", "popitem", "update",
     "setdefault"}
\* The method op of a session object, called with key k and value v
Session_call(s, op, k, v) ==
    IF s.null /\ op \in NullSession_fails THEN NullSession_fail(s)
    ELSE SecureCookieSession_call(s, op, k, v)

\* SessionInterface.is_null_session
is_null_session(s) == s.null

\* The session cookie of a request: none, one signed with the application's
\* secret key, or one whose signature does not verify
NoCookie == [signed |-> FALSE, data |-> NoData]
SessionCookie(data) == [signed |-> TRUE, data |-> data]
Forged(data) == [signed |-> FALSE, data |-> data]

\* SecureCookieSessionInterface.open_session followed by the
\* make_null_session of RequestContext.push
open_session(A, r, cookie) ==
    IF ~A.secret_key THEN NewSession(r, TRUE, NoData)
    ELSE IF cookie.data = NoData THEN NewSession(r, FALSE, NoData)
    ELSE IF cookie.signed THEN NewSession(r, FALSE, cookie.data)
    ELSE NewSession(r, FALSE, NoData)

\* SecureCookieSessionInterface.save_session: what it does to the session
\* cookie of the response
NotSaved == [action |-> "none", data |-> NoData, vary |-> FALSE]
save_session(s) ==
    IF s.data = NoData
    THEN IF s.modified THEN [action |-> "delete_cookie", data |-> NoData, vary |-> TRUE]
         ELSE [action |-> "none", data |-> NoData, vary |-> s.accessed]
    ELSE IF ~s.modified THEN [action |-> "none", data |-> NoData, vary |-> s.accessed]
    ELSE [action |-> "set_cookie", data |-> s.data, vary |-> TRUE]

\* RequestContext.__init__ / an unused slot
NoRequestContext ==
    [app |-> "", path |-> NoPath, cookie |-> NoCookie, url_rule |-> NoName,
     routing_exception |-> None, session |-> NoSession,
     after_request_functions |-> <<>>, cv_tokens |-> <<>>]
NewRequestContext(a, path) ==
    [app |-> a, path |-> path, cookie |-> NoCookie, url_rule |-> NoName,
     routing_exception |-> None, session |-> NoSession,
     after_request_functions |-> <<>>, cv_tokens |-> <<>>]

\* An event of a thread's trace
Ev(ev) == [ev |-> ev, key |-> NoName, f |-> "", arg |-> ""]
CallEv(ev, key, f) == [ev |-> ev, key |-> key, f |-> f.name, arg |-> f.does]
RaisedEv(exc) == [ev |-> "raised", key |-> NoName, f |-> "", arg |-> exc]
\* The exception a call of f raises
Raises(f) ==
    CASE f.does = "raise" -> "AppError"
      [] f.does = "abort" -> "NotFound"
      [] OTHER -> None

\* The session methods a callback may call: `session[k] = v`, `del session[k]`,
\* session.clear(), ... with the key and the value below
SessionReads == {"__getitem__", "get", "__contains__", "__len__"}
SessionOps == NullSession_fails \cup SessionReads
SessionK == "k"
SessionV == "new"
\* The functions a view hands to after_this_request
A1 == [name |-> "later1", does |-> "replace"]
A2 == [name |-> "later2", does |-> "replace"]

\* The call of f while request context R is current: the exception it raises
\* and the request context afterwards.  f.does names what the body of f
\* does: a method of the session proxy, after_this_request(A1) and
\* after_this_request(A2) (ctx.after_this_request), or none of these.
CallIn(f, R) ==
    IF f.does \in SessionOps
    THEN LET r == Session_call(R.session, f.does, SessionK, SessionV)
         IN  [R |-> [R EXCEPT !.session = r.s], exc |-> r.exc]
    ELSE IF f.does = "after_this_request"
    THEN [R |-> [R EXCEPT !.after_request_functions = @ \o <<A1, A2>>],
          exc |-> None]
    ELSE [R |-> R, exc |-> Raises(f)]

\* Calls every function of funcs in turn; a function that raises ends the
\* loop.  Returns the calls made and the exception raised.
RECURSIVE CallAll(_, _, _)
CallAll(ev, key, funcs) ==
    IF funcs = <<>> THEN [events |-> <<>>, exc |-> None]
    ELSE IF Raises(Head(funcs)) # None
    THEN [events |-> <<CallEv(ev, key, Head(funcs))>>, exc |-> Raises(Head(funcs))]
    ELSE LET r == CallAll(ev, key, Tail(funcs))
         IN  [events |-> <<CallEv(ev, key, Head(funcs))>> \o r.events, exc |-> r.exc]

\* for name in names: if name in table: for func in order(table[name]): func()
RECURSIVE CallTables(_, _, _, _)
CallTables(ev, table, names, reversed) ==
    IF names = <<>> THEN [events |-> <<>>, exc |-> None]
    ELSE LET funcs == IF Has(table, Head(names))
                      THEN IF reversed THEN Rev(table[Head(names)])
                           ELSE table[Head(names)]
                      ELSE <<>>
             r == CallAll(ev, Head(names), funcs)
         IN  IF r.exc # None THEN r
             ELSE LET rest == CallTables(ev, table, Tail(names), reversed)
                  IN  [events |-> r.events \o rest.events, exc |-> rest.exc]

\* helpers._split_blueprint_path
RECURSIVE split_blueprint_path(_)
split_blueprint_path(name) ==
    IF Len(name) > 1 THEN <<name>> \o split_blueprint_path(Front(name))
    ELSE <<name>>

\* Request.blueprints, from the endpoint of the matched rule
request_blueprints(R) ==
    IF R.url_rule # NoName /\ Len(R.url_rule) > 1
    THEN split_blueprint_path(Front(R.url_rule))
    ELSE <<>>

\* Flask.do_teardown_appcontext
do_teardown_appcontext(A) ==
    LET r == CallAll("teardown_appcontext_func", AppKey,
                     Rev(A.teardown_appcontext_funcs))
    IN  [events |-> <<Ev("do_teardown_appcontext")>> \o r.events \o
                    (IF r.exc = None THEN <<Ev("appcontext_tearing_down")>>
                     ELSE <<>>),
         exc |-> r.exc]

\* Flask.do_teardown_request
do_teardown_request_in_registration_order(A, R) ==
    LET r == CallTables("teardown_request_func", A.teardown_request_funcs,
                        request_blueprints(R) \o <<AppKey>>, FALSE)
    IN  [events |-> <<Ev("do_teardown_request")>> \o r.events \o
                    (IF r.exc = None THEN <<Ev("request_tearing_down")>>
                     ELSE <<>>),
         exc |-> r.exc]
do_teardown_request(A, R) ==
    LET r == CallTables("teardown_request_func", A.teardown_request_funcs,
                        request_blueprints(R) \o <<AppKey>>, TRUE)
    IN  [events |-> <<Ev("do_teardown_request")>> \o r.events \o
                    (IF r.exc = None THEN <<Ev("request_tearing_down")>>
                     ELSE <<>>),
         exc |-> r.exc]

\* URL matching (werkzeug MapAdapter.match): the first rule equal to the path
Match(A, path) ==
    LET hits == {i \in 1..Len(A.url_map) : A.url_map[i].rule = path}
    IN  IF hits = {} THEN NoName
        ELSE A.url_map[CHOOSE i \in hits : \A j \in hits : i <= j].endpoint

\* The context state C is [cv_app, cv_request, appctxs, reqctxs]; tables(a)
\* gives the application object of the application named a.

\* AppContext.push
AppContext_push(C, t, a) ==
    [C EXCEPT !.appctxs[a].cv_tokens = Append(@, cv_get(C.cv_app, t)),
              !.cv_app = cv_set(@, t, a)]

\* AppContext.pop.  Returns the context state, the events and the exception.
AppContext_pop_when_empty(C, t, a, A) ==
    LET self == C.appctxs[a]
        left == Front(self.cv_tokens)
        td == IF Len(left) = 1 THEN do_teardown_appcontext(A)
              ELSE [events |-> <<>>, exc |-> None]
    IN  [C |-> [C EXCEPT !.cv_app = cv_reset(@, t, Last(self.cv_tokens)),
                         !.appctxs[a] = IF left = <<>> THEN NoAppContext
                                        ELSE [self EXCEPT !.cv_tokens = left]],
         events |-> td.events \o <<Ev("appcontext_popped")>>,
         exc |-> td.exc]
AppContext_pop(C, t, a, A) ==
    LET self == C.appctxs[a]
        td == IF Len(self.cv_tokens) = 1 THEN do_teardown_appcontext(A)
              ELSE [events |-> <<>>, exc |-> None]
        ctx == cv_get(C.cv_app, t)
        left == Front(self.cv_tokens)
        C1 == [C EXCEPT !.cv_app = cv_reset(@, t, Last(self.cv_tokens)),
                        !.appctxs[a] = IF left = <<>> THEN NoAppContext
                                       ELSE [self EXCEPT !.cv_tokens = left]]
    IN  [C |-> C1,
         events |-> td.events \o
                    (IF td.exc = None /\ ctx = a THEN <<Ev("appcontext_popped")>>
                     ELSE <<>>),
         exc |-> IF td.exc # None THEN td.exc
                 ELSE IF ctx # a THEN "AssertionError" ELSE None]

\* The slot of a context object created by thread t
FreeSlot(objs, t) ==
    <<t, CHOOSE n \in Slots :
            /\ objs[<<t, n>>].app = ""
            /\ \A m \in Slots : objs[<<t, m>>].app = "" => n <= m>>
HasFreeSlot(objs, t) == \E n \in Slots : objs[<<t, n>>].app = ""

\* RequestContext.push.  A is the application object of the context's
\* application.
RequestContext_push(C, t, r, A) ==
    LET self == C.reqctxs[r]
        app_ctx == cv_get(C.cv_app, t)
        needs == app_ctx = NoCtx \/ C.appctxs[app_ctx].app # self.app
        new == FreeSlot(C.appctxs, t)
        C1 == IF needs
              THEN AppContext_push(
                      [C EXCEPT !.appctxs[new] = NewAppContext(self.app)], t, new)
              ELSE C
        pushed == IF needs THEN new ELSE NoCtx
        rule == Match(A, self.path)
    IN  [C1 EXCEPT
           !.reqctxs[r] =
               [self EXCEPT
                  !.cv_tokens = Append(@, [token |-> cv_get(C.cv_request, t),
                                           app_ctx |-> pushed]),
                  !.session = IF @ = NoSession
                              THEN open_session(A, r, self.cookie)
                              ELSE @,
                  !.url_rule = rule,
                  !.routing_exception = IF rule = NoName THEN "NotFound" ELSE None],
           !.cv_request = cv_set(@, t, r)]

\* RequestContext.pop.  tables[a] is the application object of application a.
RequestContext_pop_app_first(C, t, r, tables) ==
    LET self == C.reqctxs[r]
        top == Last(self.cv_tokens)
        td == do_teardown_request(tables[self.app], self)
        C1 == [C EXCEPT !.cv_request = cv_reset(@, t, top.token),
                        !.reqctxs[r] = NoRequestContext]
        ap == IF top.app_ctx # NoCtx
              THEN AppContext_pop(C1, t, top.app_ctx, tables[self.app])
              ELSE [C |-> C1, events |-> <<>>, exc |-> None]
    IN  [C |-> ap.C, events |-> ap.events \o td.events, exc |-> None]
RequestContext_pop(C, t, r, tables) ==
    LET self == C.reqctxs[r]
        clear_request == Len(self.cv_tokens) = 1
        ctx == cv_get(C.cv_request, t)
        td == IF clear_request
              THEN IF ctx = NoCtx
                   THEN [events |-> <<>>, exc |-> "RuntimeError"]
                   ELSE do_teardown_request(tables[self.app], C.reqctxs[ctx])
              ELSE [events |-> <<>>, exc |-> None]
        closed == IF clear_request /\ td.exc = None THEN <<Ev("request_close")>>
                  ELSE <<>>
        top == Last(self.cv_tokens)
        left == Front(self.cv_tokens)
        C1 == [C EXCEPT !.cv_request = cv_reset(@, t, top.token),
                        !.reqctxs[r] = IF left = <<>> THEN NoRequestContext
                                       ELSE [self EXCEPT !.cv_tokens = left]]
        ap == IF top.app_ctx # NoCtx
              THEN AppContext_pop(C1, t, top.app_ctx, tables[self.app])
              ELSE [C |-> C1, events |-> <<>>, exc |-> None]
    IN  [C |-> ap.C,
         events |-> td.events \o closed \o ap.events,
         exc |-> IF ap.exc # None THEN ap.exc
                 ELSE IF ctx # r THEN "AssertionError"
                 ELSE td.exc]

\* --------------------------------------------------------------------------
\* Request handling (app.py)
\* --------------------------------------------------------------------------
\* A response value: what a callback returned (kind "value"), an HTTPException
\* used as the response (kind "http"), or None (kind "none").  src and by name
\* the kind of callback and the callback that produced it.
NoRv == [kind |-> "none", src |-> "", by |-> ""]
Returned(src, f) ==
    IF f.does = "value" \/ (src = "view" /\ f.does \notin {"none", "raise", "abort"})
    THEN [kind |-> "value", src |-> src, by |-> f.name]
    ELSE NoRv
HttpRv(e) == [kind |-> "http", src |-> "", by |-> e]

\* The loop over before_request functions: the first value that is not None
\* is returned and ends the loop.
RECURSIVE CallUntilValue(_, _, _)
CallUntilValue(ev, key, funcs) ==
    IF funcs = <<>> THEN [events |-> <<>>, exc |-> None, rv |-> NoRv]
    ELSE LET f == Head(funcs)
             e == <<CallEv(ev, key, f)>>
         IN  IF Raises(f) # None THEN [events |-> e, exc |-> Raises(f), rv |-> NoRv]
             ELSE IF Returned(ev, f) # NoRv
             THEN [events |-> e, exc |-> None, rv |-> Returned(ev, f)]
             ELSE LET r == CallUntilValue(ev, key, Tail(funcs))
                  IN  [r EXCEPT !.events = e \o @]

RECURSIVE BeforeRequest(_, _)
BeforeRequest(table, names) ==
    IF names = <<>> THEN [events |-> <<>>, exc |-> None, rv |-> NoRv]
    ELSE LET r == CallUntilValue("before_request_func", Head(names),
                                 GetOr(table, Head(names), <<>>))
         IN  IF r.exc # None \/ r.rv # NoRv THEN r
             ELSE LET rest == BeforeRequest(table, Tail(names))
                  IN  [rest EXCEPT !.events = r.events \o @]

\* The first value that is not None among the results of a list of calls
RECURSIVE FirstValue(_)
FirstValue(events) ==
    IF events = <<>> THEN NoRv
    ELSE IF Head(events).arg = "value"
    THEN [kind |-> "value", src |-> Head(events).ev, by |-> Head(events).f]
    ELSE FirstValue(Tail(events))

\* Flask.preprocess_request
preprocess_request_no_return(A, R) ==
    LET names == <<AppKey>> \o Rev(request_blueprints(R))
        uv == CallTables("url_value_preprocessor", A.url_value_preprocessors,
                         names, FALSE)
        bf == CallTables("before_request_func", A.before_request_funcs, names, FALSE)
    IN  IF uv.exc # None THEN [events |-> uv.events, exc |-> uv.exc, rv |-> NoRv]
        ELSE [events |-> uv.events \o bf.events, exc |-> bf.exc,
              rv |-> IF bf.exc # None THEN NoRv ELSE FirstValue(bf.events)]
preprocess_request_innermost_first(A, R) ==
    LET names == <<AppKey>> \o request_blueprints(R)
        uv == CallTables("url_value_preprocessor", A.url_value_preprocessors,
                         names, FALSE)
        bf == BeforeRequest(A.before_request_funcs, names)
    IN  IF uv.exc # None THEN [events |-> uv.events, exc |-> uv.exc, rv |-> NoRv]
        ELSE [events |-> uv.events \o bf.events, exc |-> bf.exc, rv |-> bf.rv]
preprocess_request(A, R) ==
    LET names == <<AppKey>> \o Rev(request_blueprints(R))
        uv == CallTables("url_value_preprocessor", A.url_value_preprocessors,
                         names, FALSE)
        bf == BeforeRequest(A.before_request_funcs, names)
    IN  IF uv.exc # None THEN [events |-> uv.events, exc |-> uv.exc, rv |-> NoRv]
        ELSE [events |-> uv.events \o bf.events, exc |-> bf.exc, rv |-> bf.rv]

\* Flask.dispatch_request
dispatch_request(A, R) ==
    IF R.routing_exception # None
    THEN [events |-> <<Ev("dispatch_request")>>, exc |-> R.routing_exception,
          rv |-> NoRv]
    ELSE IF ~Has(A.view_functions, R.url_rule)
    THEN [events |-> <<Ev("dispatch_request")>>, exc |-> "KeyError", rv |-> NoRv]
    ELSE LET f == A.view_functions[R.url_rule]
         IN  [events |-> <<Ev("dispatch_request"), CallEv("view", R.url_rule, f)>>,
              exc |-> CallIn(f, R).exc, rv |-> Returned("view", f)]
\* The request context after the view function of dispatch_request has run
dispatch_request_ctx(A, R) ==
    IF R.routing_exception = None /\ Has(A.view_functions, R.url_rule)
    THEN CallIn(A.view_functions[R.url_rule], R).R
    ELSE R

\* App._find_error_handler: the handler registered for the exception class e,
\* NoFunc when there is none
find_error_handler(A, e, blueprints) ==
    LET cc == get_exc_class_and_code([code |-> NoCode, cls |-> e])
        codes == IF cc.code # NoCode THEN <<cc.code, NoCode>> ELSE <<NoCode>>
        names == blueprints \o <<AppKey>>
        mro == MRO(cc.cls)
        keys == Flatten([c \in 1..Len(codes) |->
                   Flatten([n \in 1..Len(names) |->
                      [m \in 1..Len(mro) |-> <<names[n], codes[c], mro[m]>>]])])
        hits == {k \in 1..Len(keys) : Has(A.error_handler_spec, keys[k])}
    IN  IF hits = {} THEN NoFunc
        ELSE A.error_handler_spec[keys[CHOOSE k \in hits : \A j \in hits : k <= j]]

\* The call handler(e) of an error handler
CallHandler(handler) ==
    [events |-> <<CallEv("errorhandler", NoName, handler)>>,
     exc |-> Raises(handler), rv |-> Returned("errorhandler", handler)]

\* Flask.handle_http_exception
handle_http_exception(A, R, e) ==
    LET handler == find_error_handler(A, e, request_blueprints(R))
    IN  IF handler = NoFunc THEN [events |-> <<>>, exc |-> None, rv |-> HttpRv(e)]
        ELSE CallHandler(handler)

\* Flask.handle_user_exception
handle_user_exception(A, R, e) ==
    LET handler == find_error_handler(A, e, request_blueprints(R))
        r == IF IsHTTP(e) THEN handle_http_exception(A, R, e)
             ELSE IF handler = NoFunc
             THEN [events |-> <<>>, exc |-> e, rv |-> NoRv]
             ELSE CallHandler(handler)
    IN  [r EXCEPT !.events = <<Ev("handle_user_exception")>> \o @]

\* Calls the after_request functions in turn on the response, with request
\* context R current.  Returns R as the functions leave it.
\* response = func(response): a function that does "none" returns None, one
\* that does "replace" returns a response object of its own making, any other
\* returns the object it was given.
AfterResponse(f, response) ==
    CASE f.does = "none" -> NoRv
      [] f.does = "replace" ->
            [kind |-> "value", src |-> "after_request_func", by |-> f.name]
      [] OTHER -> response
\* The trace of the call c.f(response); for a function that does "replace"
\* it records the maker of the response that was passed in.
AfterEv(c, response) ==
    [ev |-> c.ev, key |-> c.key, f |-> c.f.name,
     arg |-> IF c.f.does = "replace" THEN response.by ELSE c.f.does]
RECURSIVE CallAfter(_, _, _)
\* The call of c.f, whose outcome is in, and the calls after it
CallAfterFrom(c, in, calls, response) ==
    IF in.exc # None
    THEN [events |-> <<AfterEv(c, response)>>, exc |-> in.exc,
          response |-> response, R |-> in.R]
    ELSE [CallAfter(calls, AfterResponse(c.f, response), in.R)
             EXCEPT !.events = <<AfterEv(c, response)>> \o @]
CallAfter(calls, response, R) ==
    IF calls = <<>>
    THEN [events |-> <<>>, exc |-> None, response |-> response, R |-> R]
    ELSE CallAfterFrom(Head(calls), CallIn(Head(calls).f, R), Tail(calls), response)

\* The end of process_response, r being the outcome of the loops over the
\* after_request functions: save_session unless the session is a null session
SaveSession(r) ==
    IF r.exc # None \/ is_null_session(r.R.session)
    THEN [events |-> r.events, exc |-> r.exc, response |-> r.response,
          R |-> r.R, saved |-> NotSaved]
    ELSE IF r.response = NoRv /\ save_session(r.R.session) # NotSaved
    THEN [events |-> r.events \o <<Ev("save_session")>>, exc |-> "AttributeError",
          response |-> r.response, R |-> r.R, saved |-> NotSaved]
    ELSE [events |-> r.events \o <<Ev("save_session")>>, exc |-> r.exc,
          response |-> r.response, R |-> r.R, saved |-> save_session(r.R.session)]

\* Flask.process_response
AfterCalls(ev, key, fs) == [i \in 1..Len(fs) |-> [ev |-> ev, key |-> key, f |-> fs[i]]]
process_response_in_registration_order(A, R, response) ==
    LET names == request_blueprints(R) \o <<AppKey>>
        own == AfterCalls("after_this_request_func", NoName, R.after_request_functions)
        table == Flatten([n \in 1..Len(names) |->
                    AfterCalls("after_request_func", names[n],
                               GetOr(A.after_request_funcs, names[n], <<>>))])
    IN  SaveSession(CallAfter(own \o table, response, R))
process_response_saving_first(A, R, response) ==
    LET names == request_blueprints(R) \o <<AppKey>>
        own == AfterCalls("after_this_request_func", NoName, R.after_request_functions)
        table == Flatten([n \in 1..Len(names) |->
                    AfterCalls("after_request_func", names[n],
                               Rev(GetOr(A.after_request_funcs, names[n], <<>>)))])
    IN  [SaveSession(CallAfter(own \o table, response, R)) EXCEPT
            !.saved = IF @ = NotSaved THEN @ ELSE save_session(R.session)]
process_response(A, R, response) ==
    LET names == request_blueprints(R) \o <<AppKey>>
        own == AfterCalls("after_this_request_func", NoName, R.after_request_functions)
        table == Flatten([n \in 1..Len(names) |->
                    AfterCalls("after_request_func", names[n],
                               Rev(GetOr(A.after_request_funcs, names[n], <<>>)))])
    IN  SaveSession(CallAfter(own \o table, response, R))

\* Flask.finalize_request
Finalized(pr, rv, from_error_handler) ==
    LET start == <<[ev |-> "finalize_request", key |-> <<rv.src>>, f |-> rv.by,
                    arg |-> rv.kind], Ev("make_response")>>
    IN  IF pr.exc # None
        THEN [pr EXCEPT !.events = start \o @,
                        !.exc = IF from_error_handler THEN None ELSE @,
                        !.response = rv]
        ELSE [pr EXCEPT !.events = start \o @ \o <<Ev("request_finished")>>]
finalize_request(A, R, rv, from_error_handler) ==
    IF rv = NoRv
    THEN [events |-> <<[ev |-> "finalize_request", key |-> <<rv.src>>,
                        f |-> rv.by, arg |-> rv.kind]>>,
          exc |-> "TypeError", response |-> NoRv, R |-> R, saved |-> NotSaved]
    ELSE Finalized(process_response(A, R, rv), rv, from_error_handler)

\* Flask.handle_exception, up to its call of finalize_request
handle_exception(A, R, e) ==
    LET start == <<Ev("handle_exception"), Ev("got_request_exception")>>
        handler == find_error_handler(A, "InternalServerError", request_blueprints(R))
        h == CallHandler(handler)
    IN  IF A.propagate_exceptions
        THEN [events |-> start, exc |-> e, rv |-> NoRv]
        ELSE IF handler = NoFunc
        THEN [events |-> start, exc |-> None, rv |-> HttpRv("InternalServerError")]
        ELSE [h EXCEPT !.events = start \o @]

\* --------------------------------------------------------------------------
\* TaggedJSONSerializer (json/tag.py)
\* --------------------------------------------------------------------------
\* A Python value is <<type, v>>: v is a sequence for list and tuple, a
\* function from keys to values for dict, a string for str and bytes.  A dict
\* key is the sequence of its characters.
Py(type, v) == <<type, v>>
TypeOf(x) == x[1]
Val(x) == x[2]
PyNone == Py("NoneType", "")
PyError(e) == Py("error", e)
Str(chars) == chars
\* next(iter(value)) of a dict
FirstKey(d) == CHOOSE k \in DOMAIN d : TRUE

\* The keys of serializer.tags once default_tags are registered
TagKeys == {Str(<<" ", "d", "i">>), Str(<<" ", "t">>), Str(<<" ", "b">>),
            Str(<<" ", "m">>), Str(<<" ", "u">>), Str(<<" ", "d">>)}

\* base64.b64encode(value).decode("ascii") and base64.b64decode
b64encode(b) ==
    CASE b = "" -> ""
      [] b = "hi" -> "aGk="
      [] b = "a" -> "YQ=="
      [] OTHER -> "?"
b64decode(x) ==
    CASE x = "" -> ""
      [] x = "aGk=" -> "hi"
      [] x = "YQ==" -> "a"
      [] OTHER -> "?"

RECURSIVE tag(_)

\* JSONTag.tag
JSONTag_tag(key, json) == Py("dict", [k \in {key} |-> json])

\* TagDict
TagDict_check_never(value) == FALSE
TagDict_check(value) ==
    /\ TypeOf(value) = "dict"
    /\ Cardinality(DOMAIN Val(value)) = 1
    /\ FirstKey(Val(value)) \in TagKeys
TagDict_to_json(value) ==
    LET key == FirstKey(Val(value))
    IN  Py("dict", [k \in {key \o <<"_", "_">>} |-> tag(Val(value)[key])])
TagDict_to_python(value) ==
    IF TypeOf(value) # "dict" \/ DOMAIN Val(value) = {} THEN PyError("TypeError")
    ELSE LET key == FirstKey(Val(value))
         IN  Py("dict", [k \in {SubSeq(key, 1, Len(key) - 2)} |-> Val(value)[key]])

\* PassDict
PassDict_check(value) == TypeOf(value) = "dict"
PassDict_to_json(value) == Py("dict", [k \in DOMAIN Val(value) |-> tag(Val(value)[k])])

\* TagTuple
TagTuple_check(value) == TypeOf(value) = "tuple"
TagTuple_to_json(value) == Py("list", [i \in 1..Len(Val(value)) |-> tag(Val(value)[i])])
TagTuple_to_python(value) ==
    IF TypeOf(value) = "list" THEN Py("tuple", Val(value)) ELSE PyError("TypeError")

\* PassList
PassList_check(value) == TypeOf(value) = "list"
PassList_to_json(value) == Py("list", [i \in 1..Len(Val(value)) |-> tag(Val(value)[i])])

\* TagBytes
TagBytes_check(value) == TypeOf(value) = "bytes"
TagBytes_to_json(value) == Py("str", b64encode(Val(value)))
TagBytes_to_python(value) ==
    IF TypeOf(value) = "str" THEN Py("bytes", b64decode(Val(value)))
    ELSE PyError("TypeError")

\* TagMarkup, TagUUID, TagDateTime: to_python builds an object of the class
Tag_to_python(key, value) ==
    CASE key = Str(<<" ", "d", "i">>) -> TagDict_to_python(value)
      [] key = Str(<<" ", "t">>) -> TagTuple_to_python(value)
      [] key = Str(<<" ", "b">>) -> TagBytes_to_python(value)
      [] key = Str(<<" ", "m">>) -> Py("Markup", value)
      [] key = Str(<<" ", "u">>) -> Py("UUID", value)
      [] OTHER -> Py("datetime", value)

\* TaggedJSONSerializer.tag: the first tag of serializer.order whose check
\* accepts the value; a value no tag accepts is returned as it is.
tag(value) ==
    IF TagDict_check(value)
    THEN JSONTag_tag(Str(<<" ", "d", "i">>), TagDict_to_json(value))
    ELSE IF PassDict_check(value) THEN PassDict_to_json(value)
    ELSE IF TagTuple_check(value)
    THEN JSONTag_tag(Str(<<" ", "t">>), TagTuple_to_json(value))
    ELSE IF PassList_check(value) THEN PassList_to_json(value)
    ELSE IF TagBytes_check(value)
    THEN JSONTag_tag(Str(<<" ", "b">>), TagBytes_to_json(value))
    ELSE value

\* TaggedJSONSerializer.untag
untag(value) ==
    IF Cardinality(DOMAIN Val(value)) # 1 THEN value
    ELSE LET key == FirstKey(Val(value))
         IN  IF key \notin TagKeys THEN value
             ELSE Tag_to_python(key, Val(value)[key])

\* TaggedJSONSerializer._untag_scan
RECURSIVE untag_scan(_)
untag_scan(value) ==
    IF TypeOf(value) = "dict"
    THEN untag(Py("dict", [k \in DOMAIN Val(value) |-> untag_scan(Val(value)[k])]))
    ELSE IF TypeOf(value) = "list"
    THEN Py("list", [i \in 1..Len(Val(value)) |-> untag_scan(Val(value)[i])])
    ELSE value

\* json.dumps: the JSON text, as its syntax tree <<j, v>>.  A list and a tuple
\* are both written as an array; bytes are not serializable.
RECURSIVE json_dumps(_)
json_dumps(x) ==
    CASE TypeOf(x) \in {"list", "tuple"} ->
            <<"array", [i \in 1..Len(Val(x)) |-> json_dumps(Val(x)[i])]>>
      [] TypeOf(x) = "dict" ->
            <<"object", [k \in DOMAIN Val(x) |-> json_dumps(Val(x)[k])]>>
      [] TypeOf(x) = "str" -> <<"string", Val(x)>>
      [] TypeOf(x) = "int" -> <<"number", Val(x)>>
      [] TypeOf(x) = "NoneType" -> <<"null", "">>
      [] OTHER -> <<"TypeError", TypeOf(x)>>

\* json.loads: an array is read as a list, an object as a dict
RECURSIVE json_loads(_)
json_loads(t) ==
    CASE t[1] = "array" -> Py("list", [i \in 1..Len(t[2]) |-> json_loads(t[2][i])])
      [] t[1] = "object" -> Py("dict", [k \in DOMAIN t[2] |-> json_loads(t[2][k])])
      [] t[1] = "string" -> Py("str", t[2])
      [] t[1] = "number" -> Py("int", t[2])
      [] t[1] = "null" -> PyNone
      [] OTHER -> PyError(t[1])

\* TaggedJSONSerializer.dumps and loads
TaggedJSONSerializer_dumps(value) == json_dumps(tag(value))
TaggedJSONSerializer_loads(text) == untag_scan(json_loads(text))

\* The values the serializer is given: scalars, bytes and empty containers,
\* wrapped in lists, tuples and dicts.
Leaves == {PyNone, Py("int", 1), Py("str", "s"), Py("bytes", "hi"), Py("bytes", ""),
           Py("list", <<>>), Py("tuple", <<>>), Py("dict", [k \in {} |-> PyNone])}
DictKeys == {Str(<<"a">>), Str(<<" ", "t">>), Str(<<" ", "b">>),
             Str(<<" ", "d", "i">>), Str(<<" ", "t", "_", "_">>)}
Siblings == {<<>>, <<Py("tuple", <<Py("int", 1)>>)>>}
Others == {<<>>, <<Str(<<"z">>)>>}

\* --------------------------------------------------------------------------
\* State
\* --------------------------------------------------------------------------
VARIABLES
    app,         \* the Flask application object
    bps,         \* the Blueprint objects
    called,      \* trace of the user callbacks recorded on blueprints
    loaded,      \* whether a user module has been imported
    nsetup,      \* number of further setup calls made so far
    result,      \* the last setup call and the exception it raised
    cv_app,      \* globals._cv_app: per thread, the current AppContext
    cv_request,  \* globals._cv_request: per thread, the current RequestContext
    appctxs,     \* the AppContext objects
    reqctxs,     \* the RequestContext objects
    stack,       \* per thread, the contexts its code has pushed and not popped
    pc,          \* per thread, where it is in wsgi_app
    cur,         \* per thread, the local variables of wsgi_app
    log,         \* per thread, the trace of its last operation
    value,       \* the value given to the tagged JSON serializer
    nesting,     \* the nesting depth of value
    text,        \* what dumps(value) returned
    restored,    \* what loads(text) returned
    phase,       \* "value", then "dumped", then "loaded"
    client       \* the FlaskClient of the test code

setupVars == <<app, bps, called, loaded, nsetup, result>>
ctxVars == <<cv_app, cv_request, appctxs, reqctxs, stack>>
reqVars == <<pc, cur, log>>
tagVars == <<value, nesting, text, restored, phase>>
vars == <<app, bps, called, loaded, nsetup, result,
          cv_app, cv_request, appctxs, reqctxs, stack, pc, cur, log,
          value, nesting, text, restored, phase, client>>

SetupState == [app |-> app, bps |-> bps, called |-> called]

NoResult == [on |-> "", call |-> Call("", NoFunc), exc |-> None]

\* The second application, with nothing registered
OtherApp == NewApp(FALSE)
AppObject(a) == IF a = "app" THEN app ELSE OtherApp
AppObjects == [a \in FlaskApps |-> AppObject(a)]

CtxState == [cv_app |-> cv_app, cv_request |-> cv_request,
             appctxs |-> appctxs, reqctxs |-> reqctxs]
SetCtx(C) ==
    /\ cv_app' = C.cv_app
    /\ cv_request' = C.cv_request
    /\ appctxs' = C.appctxs
    /\ reqctxs' = C.reqctxs

\* The FlaskClient of a test (testing.py): FlaskClient.__init__.  opening
\* holds while the client is inside open().
NewClient ==
    [preserve_context |-> FALSE, new_contexts |-> <<>>, context_stack |-> <<>>,
     opening |-> FALSE]

\* The locals of a wsgi_app call; preserve holds when its environ has the key
\* "werkzeug.debug.preserve_context".
NoCur == [ctx |-> NoCtx, preserve |-> FALSE, rv |-> NoRv, response |-> NoRv,
          saved |-> NotSaved, error |-> None, exc |-> None,
          from_error_handler |-> FALSE]

\* No context exists and no thread is in wsgi_app.
InitCtx ==
    /\ cv_app = [t \in Threads |-> NoCtx]
    /\ cv_request = [t \in Threads |-> NoCtx]
    /\ appctxs = [c \in CtxIds |-> NoAppContext]
    /\ reqctxs = [c \in CtxIds |-> NoRequestContext]
    /\ stack = [t \in Threads |-> <<>>]
    /\ pc = [t \in Threads |-> "idle"]
    /\ cur = [t \in Threads |-> NoCur]
    /\ log = [t \in Threads |-> <<>>]
    /\ client = NewClient

\* The serializer has been given nothing yet.
InitTag ==
    /\ value = PyNone
    /\ nesting = 0
    /\ text = json_dumps(PyNone)
    /\ restored = PyNone
    /\ phase = "value"

NewBlueprints == [b \in BPs |-> NewBlueprint(BpName(b), BpUrlPrefix(b))]

\* The application and the blueprints are constructed; nothing is registered.
InitSetup ==
    /\ app = NewApp(FALSE)
    /\ bps = NewBlueprints
    /\ called = <<>>
    /\ loaded = FALSE
    /\ nsetup = 0
    /\ result = NoResult
    /\ InitCtx
    /\ InitTag

\* The application after the import of user module m, with the configuration
\* values PROPAGATE_EXCEPTIONS and SECRET_KEY set.
InitApp(m, propagate, secret_key) ==
    LET r == RunSetup([app |-> NewApp(propagate), bps |-> NewBlueprints,
                       called |-> <<>>], m, NoResult)
    IN  /\ app = [r.app EXCEPT !.secret_key = secret_key]
        /\ bps = r.bps
        /\ called = r.called
        /\ loaded = TRUE
        /\ nsetup = 0
        /\ result = r.last

InitServing(m, propagate, secret_key) ==
    /\ InitApp(m, propagate, secret_key)
    /\ InitCtx
    /\ InitTag

\* The top-level code of a user module runs: a sequence of setup calls.
RunModule(m) ==
    /\ ~loaded
    /\ loaded' = TRUE
    /\ LET r == RunSetup(SetupState, m, NoResult)
       IN  /\ app' = r.app
           /\ bps' = r.bps
           /\ called' = r.called
           /\ result' = r.last
    /\ UNCHANGED <<nsetup, ctxVars, reqVars, tagVars, client>>

\* A setup method is called on the application.
AppSetup(c) ==
    /\ nsetup < MaxSetupCalls
    /\ LET r == ApplyApp(SetupState, c)
       IN  /\ app' = r.app
           /\ bps' = r.bps
           /\ called' = r.called
           /\ result' = [on |-> "app", call |-> c, exc |-> r.exc]
    /\ nsetup' = nsetup + 1
    /\ UNCHANGED <<loaded, ctxVars, reqVars, tagVars, client>>

\* A setup method is called on blueprint b.
BlueprintSetup(b, c) ==
    /\ nsetup < MaxSetupCalls
    /\ LET r == ApplyBp(SetupState, b, c)
       IN  /\ app' = r.app
           /\ bps' = r.bps
           /\ called' = r.called
           /\ result' = [on |-> b, call |-> c, exc |-> r.exc]
    /\ nsetup' = nsetup + 1
    /\ UNCHANGED <<loaded, ctxVars, reqVars, tagVars, client>>

NextSetup ==
    \/ \E m \in SetupModules : RunModule(m)
    \/ \E c \in AppCalls : AppSetup(c)
    \/ \E b \in BPs : \E c \in BpCalls(b) : BlueprintSetup(b, c)

SpecSetup == InitSetup /\ [][NextSetup]_vars

\* --------------------------------------------------------------------------
\* Contexts pushed and popped by the code of a thread
\* --------------------------------------------------------------------------
\* An entry of stack[t]: the context object pushed, its application and the
\* AppContext the push made current (NoCtx when it pushed none).
Pushed(kind, id, a, ctx) == [kind |-> kind, id |-> id, app |-> a, pushed |-> ctx]

\* `app.app_context().push()`, or entering `with app.app_context():`
PushAppContext(t, a, max) ==
    /\ pc[t] = "idle"
    /\ Len(stack[t]) < max
    /\ HasFreeSlot(appctxs, t)
    /\ LET id == FreeSlot(appctxs, t)
           C == [CtxState EXCEPT !.appctxs[id] = NewAppContext(a)]
       IN  /\ SetCtx(AppContext_push(C, t, id))
           /\ stack' = [stack EXCEPT ![t] = Append(@, Pushed("app", id, a, id))]
    /\ log' = [log EXCEPT ![t] = <<Ev("push")>>]
    /\ UNCHANGED <<setupVars, pc, cur, tagVars, client>>

\* `app.test_request_context(path).push()`, or entering it with `with`
PushRequestContext(t, a, path, max) ==
    /\ pc[t] = "idle"
    /\ Len(stack[t]) < max
    /\ HasFreeSlot(reqctxs, t)
    /\ HasFreeSlot(appctxs, t)
    /\ LET id == FreeSlot(reqctxs, t)
           C == [CtxState EXCEPT !.reqctxs[id] = NewRequestContext(a, path)]
           C1 == RequestContext_push(C, t, id, AppObject(a))
       IN  /\ SetCtx(C1)
           /\ stack' = [stack EXCEPT ![t] =
                  Append(@, Pushed("request", id, a, Last(C1.reqctxs[id].cv_tokens).app_ctx))]
    /\ log' = [log EXCEPT ![t] = <<Ev("push")>>]
    /\ UNCHANGED <<setupVars, pc, cur, tagVars, client>>

\* A context object the thread holds is pushed once more.
PushAgain(t, i, max) ==
    /\ pc[t] = "idle"
    /\ Len(stack[t]) < max
    /\ i \in 1..Len(stack[t])
    /\ HasFreeSlot(appctxs, t)
    /\ LET e == stack[t][i]
           C1 == IF e.kind = "app" THEN AppContext_push(CtxState, t, e.id)
                 ELSE RequestContext_push(CtxState, t, e.id, AppObject(e.app))
       IN  /\ SetCtx(C1)
           /\ stack' = [stack EXCEPT ![t] =
                  Append(@, Pushed(e.kind, e.id, e.app,
                                   IF e.kind = "app" THEN e.id
                                   ELSE Last(C1.reqctxs[e.id].cv_tokens).app_ctx))]
    /\ log' = [log EXCEPT ![t] = <<Ev("push")>>]
    /\ UNCHANGED <<setupVars, pc, cur, tagVars, client>>

\* The context pushed last is popped: `ctx.pop()`, or leaving the with block.
PopContext(t) ==
    /\ pc[t] = "idle"
    /\ stack[t] # <<>>
    /\ LET e == Last(stack[t])
           r == IF e.kind = "app"
                THEN AppContext_pop(CtxState, t, e.id, AppObject(e.app))
                ELSE RequestContext_pop(CtxState, t, e.id, AppObjects)
       IN  /\ SetCtx(r.C)
           /\ log' = [log EXCEPT ![t] =
                  <<Ev("pop")>> \o r.events \o
                  (IF r.exc # None THEN <<RaisedEv(r.exc)>> ELSE <<>>)]
    /\ stack' = [stack EXCEPT ![t] = Front(@)]
    /\ UNCHANGED <<setupVars, pc, cur, tagVars, client>>

\* The proxies of globals.py as thread t sees them.  Unbound is what a proxy
\* gives outside of a context (it raises RuntimeError when used).
Unbound == "<unbound>"
has_app_context(t) == cv_get(cv_app, t) # NoCtx
has_request_context(t) == cv_get(cv_request, t) # NoCtx
current_app(t) ==
    IF has_app_context(t) THEN appctxs[cv_get(cv_app, t)].app ELSE Unbound
\* g and request are named by the context object that holds them
g(t) == cv_get(cv_app, t)
request(t) == cv_get(cv_request, t)
session(t) ==
    IF has_request_context(t) THEN reqctxs[cv_get(cv_request, t)].session
    ELSE NoSession

NextCtx ==
    \E t \in Threads :
        \/ \E a \in FlaskApps : PushAppContext(t, a, MaxDepth)
        \/ PushRequestContext(t, "app", <<"/">>, MaxDepth)
        \/ \E i \in 1..MaxDepth : PushAgain(t, i, MaxDepth)
        \/ PopContext(t)

InitServed == InitServing(ModServe, FALSE, TRUE)

SpecCtx == InitServed /\ [][NextCtx]_vars

\* --------------------------------------------------------------------------
\* Properties of the setup phase
\* --------------------------------------------------------------------------
\* The last step was a single setup call (not a module import)
IsCall == nsetup' = nsetup + 1

\* The name a register_blueprint call registers the blueprint under
RegisteredName(c) ==
    c.options.name_prefix \o
        (IF c.options.name = NoName THEN BpName(c.bp) ELSE c.options.name)

IsSuffix(s, t) ==
    Len(s) <= Len(t) /\ SubSeq(t, Len(t) - Len(s) + 1, Len(t)) = s

\* The blueprints nested, directly or not, in blueprint b
RECURSIVE NestedIn(_, _)
NestedIn(b, depth) ==
    IF depth = 0 THEN {}
    ELSE LET direct == {bps[b]._blueprints[i].bp :
                            i \in 1..Len(bps[b]._blueprints)}
         IN  direct \cup UNION {NestedIn(c, depth - 1) : c \in direct}

RegisterSucceeded ==
    /\ result.on = "app"
    /\ result.call.op = "register_blueprint"
    /\ result.exc = None

HooksMerged(B, N) ==
    \A table \in HookTables :
        Has(B[table], AppKey) =>
            /\ Has(app[table], N)
            /\ IsSuffix(B[table][AppKey], app[table][N])

ErrorHandlersMerged(B, N) ==
    \A k \in DOMAIN B.error_handler_spec :
        /\ Has(app.error_handler_spec, <<N \o k[1], k[2], k[3]>>)
        /\ app.error_handler_spec[<<N \o k[1], k[2], k[3]>>] = B.error_handler_spec[k]

RecordedRoutes(B) ==
    {B.deferred_functions[i] : i \in 1..Len(B.deferred_functions)}
        \cap {d \in Range(B.deferred_functions) : d.kind = "add_url_rule"}

RouteEndpoint(d, N) ==
    N \o (IF d.endpoint = NoName THEN endpoint_from_view_func(d.f) ELSE d.endpoint)

InUrlMap(ep) == \E i \in 1..Len(app.url_map) : app.url_map[i].endpoint = ep

\* C5 (as stated): after app.register_blueprint(bp) succeeds with name N, every
\* entry of bp.view_functions is in app.view_functions, every hook list the
\* blueprint holds under None is appended in order under key N, its error
\* handlers are under error_handler_spec[N], and every recorded route is in
\* url_map and in view_functions under the endpoint N.<endpoint>.
C5_AsStated ==
    RegisterSucceeded =>
        LET B == bps[result.call.bp]
            N == RegisteredName(result.call)
        IN  /\ \A e \in DOMAIN B.view_functions :
                  Has(app.view_functions, e) /\ app.view_functions[e] = B.view_functions[e]
            /\ HooksMerged(B, N)
            /\ ErrorHandlersMerged(B, N)
            /\ \A d \in RecordedRoutes(B) :
                  /\ InUrlMap(RouteEndpoint(d, N))
                  /\ Has(app.view_functions, RouteEndpoint(d, N))

\* C5 (amended): as stated, except that an entry of bp.view_functions may
\* have been replaced by the entry a blueprint nested in bp holds for the
\* same endpoint, and that a route recorded without a view function is in
\* url_map only.
C5_BlueprintMerged ==
    RegisterSucceeded =>
        LET B == bps[result.call.bp]
            N == RegisteredName(result.call)
        IN  /\ \A e \in DOMAIN B.view_functions :
                  /\ Has(app.view_functions, e)
                  /\ \/ app.view_functions[e] = B.view_functions[e]
                     \/ \E c \in NestedIn(result.call.bp, Cardinality(BPs)) :
                           /\ Has(bps[c].view_functions, e)
                           /\ app.view_functions[e] = bps[c].view_functions[e]
            /\ HooksMerged(B, N)
            /\ ErrorHandlersMerged(B, N)
            /\ \A d \in RecordedRoutes(B) :
                  /\ InUrlMap(RouteEndpoint(d, N))
                  /\ d.f # NoFunc =>
                        /\ Has(app.view_functions, RouteEndpoint(d, N))
                        /\ app.view_functions[RouteEndpoint(d, N)] = d.f

\* A blueprint holding two before_request functions, an error handler, a
\* view function and a route has been registered.
C5_Witness ==
    /\ RegisterSucceeded
    /\ LET B == bps[result.call.bp]
       IN  /\ Has(B.before_request_funcs, AppKey)
           /\ Len(B.before_request_funcs[AppKey]) = 2
           /\ DOMAIN B.error_handler_spec # {}
           /\ DOMAIN B.view_functions # {}
           /\ RecordedRoutes(B) # {}

\* C7: once a blueprint has been registered (_got_registered_once), every
\* setup method called on it raises AssertionError and changes neither the
\* blueprint nor the application.
C7_BlueprintSetupFinished ==
    [][\A b \in BPs :
          (IsCall /\ result'.on = b /\ bps[b]._got_registered_once) =>
              /\ result'.exc = "AssertionError"
              /\ bps' = bps
              /\ app' = app]_vars

\* A setup method was called on a registered blueprint.
C7_Witness ==
    /\ nsetup > 0
    /\ result.on \in BPs
    /\ bps[result.on]._got_registered_once
    /\ result.exc = "AssertionError"
    /\ result.call.op = "record_once"

\* C8: register_blueprint raises ValueError and changes nothing when the
\* computed name is already a key of app.blueprints (bound to this or to
\* another blueprint); no step rebinds a key of app.blueprints.
C8_NameRegisteredOnce ==
    [][/\ (/\ IsCall
           /\ result'.on = "app"
           /\ result'.call.op = "register_blueprint"
           /\ ~app._got_first_request
           /\ Has(app.blueprints, RegisteredName(result'.call)))
          => (result'.exc = "ValueError" /\ app' = app /\ bps' = bps)
       /\ \A k \in DOMAIN app.blueprints :
             Has(app'.blueprints, k) /\ app'.blueprints[k] = app.blueprints[k]]_vars

\* A blueprint was refused the name under which another one is registered.
C8_Witness ==
    /\ nsetup > 0
    /\ result.on = "app"
    /\ result.call.op = "register_blueprint"
    /\ result.exc = "ValueError"
    /\ Has(app.blueprints, RegisteredName(result.call))
    /\ app.blueprints[RegisteredName(result.call)] # result.call.bp

\* --------------------------------------------------------------------------
\* Flask.wsgi_app, one step per stage of the request
\* --------------------------------------------------------------------------
\* The request proxy of thread t, as the application code reads it
Request(t) == reqctxs[cv_get(cv_request, t)]

Logged(t, events, exc) ==
    log' = [log EXCEPT ![t] =
               @ \o events \o (IF exc # None THEN <<RaisedEv(exc)>> ELSE <<>>)]

\* wsgi_app is called: ctx = self.request_context(environ); ctx.push()
WsgiPushCookie(t, path, cookie) ==
    /\ pc[t] = "idle"
    /\ HasFreeSlot(reqctxs, t)
    /\ HasFreeSlot(appctxs, t)
    /\ LET id == FreeSlot(reqctxs, t)
           C == [CtxState EXCEPT !.reqctxs[id] =
                    [NewRequestContext("app", path) EXCEPT !.cookie = cookie]]
           C1 == RequestContext_push(C, t, id, app)
       IN  /\ SetCtx(C1)
           /\ stack' = [stack EXCEPT ![t] =
                  Append(@, Pushed("request", id, "app",
                                   Last(C1.reqctxs[id].cv_tokens).app_ctx))]
           /\ cur' = [cur EXCEPT ![t] = [NoCur EXCEPT !.ctx = id]]
    /\ log' = [log EXCEPT ![t] =
           <<Ev("wsgi_app")>> \o
           (IF cv_app'[t] # cv_app[t] THEN <<Ev("appcontext_pushed")>> ELSE <<>>) \o
           <<Ev("push")>>]
    /\ pc' = [pc EXCEPT ![t] = "full_dispatch_request"]
    /\ UNCHANGED <<setupVars, tagVars, client>>
\* A request that carries no session cookie
WsgiPush(t, path) == WsgiPushCookie(t, path, NoCookie)

\* full_dispatch_request up to the end of preprocess_request
WsgiFullDispatch(t) ==
    /\ pc[t] = "full_dispatch_request"
    /\ app' = [app EXCEPT !._got_first_request = TRUE]
    /\ LET r == preprocess_request(app, Request(t))
       IN  /\ Logged(t, <<Ev("request_started")>> \o r.events, r.exc)
           /\ cur' = [cur EXCEPT ![t].rv = r.rv, ![t].exc = r.exc]
           /\ pc' = [pc EXCEPT ![t] =
                  IF r.exc # None THEN "handle_user_exception"
                  ELSE IF r.rv # NoRv THEN "finalize_request"
                  ELSE "dispatch_request"]
    /\ UNCHANGED <<bps, called, loaded, nsetup, result, ctxVars, tagVars, client>>

\* rv = self.dispatch_request()
WsgiDispatch(t) ==
    /\ pc[t] = "dispatch_request"
    /\ LET r == dispatch_request(app, Request(t))
       IN  /\ Logged(t, r.events, r.exc)
           /\ cur' = [cur EXCEPT ![t].rv = r.rv, ![t].exc = r.exc]
           /\ pc' = [pc EXCEPT ![t] =
                  IF r.exc # None THEN "handle_user_exception"
                  ELSE "finalize_request"]
    /\ reqctxs' = [reqctxs EXCEPT ![cv_get(cv_request, t)] =
                       dispatch_request_ctx(app, Request(t))]
    /\ UNCHANGED <<setupVars, cv_app, cv_request, appctxs, stack, tagVars, client>>

\* except Exception as e: rv = self.handle_user_exception(e)
WsgiHandleUserException(t) ==
    /\ pc[t] = "handle_user_exception"
    /\ LET r == handle_user_exception(app, Request(t), cur[t].exc)
       IN  /\ Logged(t, r.events, r.exc)
           /\ cur' = [cur EXCEPT ![t].rv = r.rv, ![t].exc = r.exc]
           /\ pc' = [pc EXCEPT ![t] =
                  IF r.exc # None THEN "handle_exception"
                  ELSE "finalize_request"]
    /\ UNCHANGED <<setupVars, ctxVars, tagVars, client>>

\* finalize_request, called by full_dispatch_request or by handle_exception.
\* An exception it raises is caught by wsgi_app in the first case and leaves
\* wsgi_app in the second.
WsgiFinalized(t, r) ==
    /\ Logged(t, r.events, r.exc)
    /\ cur' = [cur EXCEPT ![t].response = r.response, ![t].exc = r.exc,
                          ![t].saved = r.saved]
    /\ pc' = [pc EXCEPT ![t] =
           IF r.exc # None /\ ~cur[t].from_error_handler
           THEN "handle_exception"
           ELSE "pop"]
    /\ reqctxs' = [reqctxs EXCEPT ![cv_get(cv_request, t)] = r.R]
WsgiFinalize(t) ==
    /\ pc[t] = "finalize_request"
    /\ WsgiFinalized(t, finalize_request(app, Request(t), cur[t].rv,
                                         cur[t].from_error_handler))
    /\ UNCHANGED <<setupVars, cv_app, cv_request, appctxs, stack, tagVars, client>>

\* except Exception as e: error = e; response = self.handle_exception(e)
WsgiHandleException(t) ==
    /\ pc[t] = "handle_exception"
    /\ LET r == handle_exception(app, Request(t), cur[t].exc)
       IN  /\ Logged(t, r.events, r.exc)
           /\ cur' = [cur EXCEPT ![t].error = cur[t].exc, ![t].rv = r.rv,
                                 ![t].exc = r.exc,
                                 ![t].from_error_handler = TRUE]
           /\ pc' = [pc EXCEPT ![t] =
                  IF r.exc # None THEN "pop" ELSE "finalize_request"]
    /\ UNCHANGED <<setupVars, ctxVars, tagVars, client>>

\* A reference to a context object, as the test client holds it
ContextRef(kind, id) == [kind |-> kind, id |-> id]

\* The context objects after a pop that are still referenced by refs: an
\* object that left the context variables keeps its attributes (C0 is the
\* state before the pop).
RECURSIVE Referenced(_, _, _)
Referenced(C, C0, refs) ==
    IF refs = <<>> THEN C
    ELSE LET ref == Head(refs)
             C1 == IF ref.kind = "app"
                   THEN IF C.appctxs[ref.id] = NoAppContext
                        THEN [C EXCEPT !.appctxs[ref.id] =
                                 [C0.appctxs[ref.id] EXCEPT !.cv_tokens = <<>>]]
                        ELSE C
                   ELSE IF C.reqctxs[ref.id] = NoRequestContext
                        THEN [C EXCEPT !.reqctxs[ref.id] =
                                 [C0.reqctxs[ref.id] EXCEPT !.cv_tokens = <<>>]]
                        ELSE C
         IN  Referenced(C1, C0, Tail(refs))

\* return response(environ, start_response), then the finally clause: the
\* contexts are handed to environ["werkzeug.debug.preserve_context"], then
\* ctx.pop(error).  cur[t].exc is the exception that leaves wsgi_app.
WsgiPop(t) ==
    /\ pc[t] = "pop"
    /\ LET called_none == cur[t].exc = None /\ cur[t].response = NoRv
           respond == IF cur[t].exc # None THEN <<>>
                      ELSE IF called_none THEN <<RaisedEv("TypeError")>>
                      ELSE <<Ev("respond")>>
           kept == IF cur[t].preserve
                   THEN <<ContextRef("app", cv_get(cv_app, t)),
                          ContextRef("request", cv_get(cv_request, t))>>
                   ELSE <<>>
           r == RequestContext_pop(CtxState, t, cur[t].ctx, AppObjects)
           exc == IF r.exc # None THEN r.exc
                  ELSE IF called_none THEN "TypeError"
                  ELSE cur[t].exc
       IN  /\ SetCtx(Referenced(r.C, CtxState, kept))
           /\ client' = [client EXCEPT !.new_contexts = @ \o kept]
           /\ Logged(t, respond \o <<Ev("pop")>> \o r.events \o <<Ev("return")>>,
                     r.exc)
           /\ cur' = [cur EXCEPT ![t].exc = exc]
    /\ stack' = [stack EXCEPT ![t] = Front(@)]
    /\ pc' = [pc EXCEPT ![t] = "idle"]
    /\ UNCHANGED <<setupVars, tagVars>>

Wsgi(t) ==
    \/ WsgiFullDispatch(t)
    \/ WsgiDispatch(t)
    \/ WsgiHandleUserException(t)
    \/ WsgiFinalize(t)
    \/ WsgiHandleException(t)
    \/ WsgiPop(t)

\* The threads of a server handle requests; a thread may call wsgi_app from
\* inside an application context (as a test or a command does).
NextServe ==
    \E t \in Threads :
        \/ \E a \in FlaskApps : PushAppContext(t, a, MaxOuter)
        \/ PopContext(t)
        \/ \E path \in {<<"/">>, <<"/", "boom">>} : WsgiPush(t, path)
        \/ Wsgi(t)

\* One thread handles requests of each of the applications.
NextRequest ==
    \/ \E a \in FlaskApps : PushAppContext("t1", a, MaxOuter)
    \/ PopContext("t1")
    \/ \E path \in Paths : WsgiPush("t1", path)
    \/ Wsgi("t1")

InitRequest ==
    \E m \in ServeModules, p \in BOOLEAN : InitServing(m, p, TRUE)

SpecRequest == InitRequest /\ [][NextRequest]_vars

InitServe == InitServing(ModServe, FALSE, TRUE)

SpecServe == InitServe /\ [][NextServe]_vars

\* An application whose views call one method of the session each
V_session(op) == [name |-> op, does |-> op]
SessionOpList ==
    <<"__setitem__", "__delitem__", "clear", "pop", "popitem", "update",
      "setdefault", "__getitem__", "get", "__contains__", "__len__">>
ModSession ==
    [i \in 1..Len(SessionOpList) |->
        On("app", Route(<<"/", SessionOpList[i]>>, NoName,
                        V_session(SessionOpList[i])))] \o
    <<On("app", Call("after_request", F2))>>
\* An application with an after_request function that sets a session key
F_set == [name |-> "remember", does |-> "__setitem__"]
ModSessionAfter ==
    <<On("app", Route(<<"/">>, NoName, V_index)),
      On("app", Route(<<"/", "get">>, NoName, V_session("get"))),
      On("app", Route(<<"/", "boom">>, NoName, V_boom)),
      On("app", Call("after_request", F2)),
      On("app", Call("after_request", F_set)),
      On("app", Call("after_request", F4))>>
SessionModules == {ModSession, ModSessionAfter}
SessionPaths ==
    {<<"/", SessionOpList[i]>> : i \in 1..Len(SessionOpList)} \cup
    {<<"/">>, <<"/", "boom">>}
\* The session cookies a request may carry
StoredData == [x \in {SessionK} |-> "old"]
Cookies == {NoCookie, SessionCookie(StoredData), Forged(StoredData)}

\* One thread handles requests with and without a session cookie, of an
\* application with or without a secret key.
NextSession ==
    \/ \E path \in SessionPaths, c \in Cookies : WsgiPushCookie("t1", path, c)
    \/ Wsgi("t1")

InitSession ==
    \E m \in SessionModules, k \in BOOLEAN : InitServing(m, FALSE, k)

SpecSession == InitSession /\ [][NextSession]_vars

\* --------------------------------------------------------------------------
\* FlaskClient (testing.py), used by the code of thread t
\* --------------------------------------------------------------------------
\* ExitStack.close(): the contexts entered are exited, the last one first
RECURSIVE ExitStack_close(_, _, _)
\* r is the outcome of the __exit__ of the last context of the stack
ExitStack_closed(r, t, cs) ==
    [ExitStack_close(r.C, t, cs) EXCEPT
        !.events = <<Ev("exit")>> \o r.events \o
                   (IF r.exc # None THEN <<RaisedEv(r.exc)>> ELSE <<>>) \o @]
ExitStack_close(C, t, cs) ==
    IF cs = <<>> THEN [C |-> C, events |-> <<>>]
    ELSE ExitStack_closed(
             IF Last(cs).kind = "app"
             THEN AppContext_pop(C, t, Last(cs).id,
                                 AppObject(C.appctxs[Last(cs).id].app))
             ELSE RequestContext_pop(C, t, Last(cs).id, AppObjects),
             t, Front(cs))

\* ExitStack.enter_context(cm) for every cm of refs in turn: cm.__enter__()
\* pushes the context.
RECURSIVE EnterAll(_, _, _)
EnterAll(C, t, refs) ==
    IF refs = <<>> THEN C
    ELSE LET ref == Head(refs)
             C1 == IF ref.kind = "app" THEN AppContext_push(C, t, ref.id)
                   ELSE RequestContext_push(C, t, ref.id,
                                            AppObject(C.reqctxs[ref.id].app))
         IN  EnterAll(C1, t, Tail(refs))

FreeSlots(objs, t) == {n \in Slots : objs[<<t, n>>].app = ""}

\* FlaskClient.__enter__
ClientEnter(t) ==
    /\ pc[t] = "idle"
    /\ ~client.opening
    /\ IF client.preserve_context
       THEN /\ log' = [log EXCEPT ![t] =
                   <<Ev("__enter__"), RaisedEv("RuntimeError")>>]
            /\ UNCHANGED client
       ELSE /\ log' = [log EXCEPT ![t] = <<Ev("__enter__")>>]
            /\ client' = [client EXCEPT !.preserve_context = TRUE]
    /\ UNCHANGED <<setupVars, ctxVars, pc, cur, tagVars>>

\* FlaskClient.__exit__, at the end of a with block that __enter__ opened
ClientExited(t, closed) ==
    /\ SetCtx(closed.C)
    /\ log' = [log EXCEPT ![t] = <<Ev("__exit__")>> \o closed.events]
ClientExit(t) ==
    /\ pc[t] = "idle"
    /\ ~client.opening
    /\ client.preserve_context
    /\ ClientExited(t, ExitStack_close(CtxState, t, client.context_stack))
    /\ client' = [client EXCEPT !.preserve_context = FALSE,
                                !.context_stack = <<>>]
    /\ UNCHANGED <<setupVars, stack, pc, cur, tagVars>>

\* FlaskClient.open up to the ctx.push() of the wsgi_app call it makes:
\* _copy_environ, self._context_stack.close(), super().open(request).  The
\* objects alive at a time are bounded by Slots.
ClientRequest(t, id, C1) ==
    /\ SetCtx(C1)
    /\ stack' = [stack EXCEPT ![t] =
           Append(@, Pushed("request", id, "app",
                            Last(C1.reqctxs[id].cv_tokens).app_ctx))]
    /\ cur' = [cur EXCEPT ![t] =
           [NoCur EXCEPT !.ctx = id, !.preserve = client.preserve_context]]
ClientClosed(t, path, closed) ==
    /\ FreeSlots(closed.C.reqctxs, t) # {}
    /\ Cardinality(FreeSlots(closed.C.appctxs, t)) >= 2
    /\ ClientRequest(t, FreeSlot(closed.C.reqctxs, t),
           RequestContext_push(
               [closed.C EXCEPT !.reqctxs[FreeSlot(closed.C.reqctxs, t)] =
                   NewRequestContext("app", path)],
               t, FreeSlot(closed.C.reqctxs, t), app))
    /\ log' = [log EXCEPT ![t] =
           <<Ev("open")>> \o closed.events \o
           <<Ev("wsgi_app"), Ev("appcontext_pushed"), Ev("push")>>]
ClientOpen(t, path) ==
    /\ pc[t] = "idle"
    /\ ~client.opening
    /\ ClientClosed(t, path, ExitStack_close(CtxState, t, client.context_stack))
    /\ client' = [client EXCEPT !.context_stack = <<>>, !.opening = TRUE]
    /\ pc' = [pc EXCEPT ![t] = "full_dispatch_request"]
    /\ UNCHANGED <<setupVars, tagVars>>

\* FlaskClient.open after super().open(request): an exception of the
\* application leaves open(); otherwise the contexts of _new_contexts are
\* entered, the last one first.
ClientOpened(t) ==
    /\ client.opening
    /\ pc[t] = "idle"
    /\ IF cur[t].exc # None
       THEN /\ client' = [client EXCEPT !.opening = FALSE]
            /\ log' = [log EXCEPT ![t] = @ \o <<RaisedEv(cur[t].exc)>>]
            /\ UNCHANGED ctxVars
       ELSE /\ SetCtx(EnterAll(CtxState, t, Rev(client.new_contexts)))
            /\ client' = [client EXCEPT !.opening = FALSE,
                                        !.new_contexts = <<>>,
                                        !.context_stack = Rev(client.new_contexts)]
            /\ log' = [log EXCEPT ![t] = @ \o <<Ev("opened")>>]
            /\ UNCHANGED stack
    /\ UNCHANGED <<setupVars, pc, cur, tagVars>>

\* A test uses the client, inside and outside of `with client:` blocks.
NextClient ==
    \/ ClientEnter("t1")
    \/ ClientExit("t1")
    \/ \E path \in {<<"/">>, <<"/", "boom">>} : ClientOpen("t1", path)
    \/ Wsgi("t1")
    \/ ClientOpened("t1")

InitClient == \E p \in BOOLEAN : InitServing(ModServe, p, TRUE)

SpecClient == InitClient /\ [][NextClient]_vars

\* Setup calls on the application before, while and after it handles its
\* first requests.
NextFirstRequest ==
    \/ \E c \in AppCalls : AppSetup(c)
    \/ \E path \in {<<"/">>, RuleX} : WsgiPush("t1", path)
    \/ Wsgi("t1")

SpecFirstRequest == InitServed /\ [][NextFirstRequest]_vars

\* --------------------------------------------------------------------------
\* A value is built, dumped and loaded again
\* --------------------------------------------------------------------------
\* The value becomes an item of a list: [value, *siblings]
WrapList(siblings) ==
    /\ phase = "value"
    /\ nesting < MaxNesting
    /\ value' = Py("list", <<value>> \o siblings)
    /\ nesting' = nesting + 1
    /\ UNCHANGED <<setupVars, ctxVars, reqVars, text, restored, phase, client>>

\* The value becomes an item of a tuple: (value, *siblings)
WrapTuple(siblings) ==
    /\ phase = "value"
    /\ nesting < MaxNesting
    /\ value' = Py("tuple", <<value>> \o siblings)
    /\ nesting' = nesting + 1
    /\ UNCHANGED <<setupVars, ctxVars, reqVars, text, restored, phase, client>>

\* The value becomes a value of a dict: {key: value, **{k: 1 for k in others}}
WrapDict(key, others) ==
    /\ phase = "value"
    /\ nesting < MaxNesting
    /\ value' = Py("dict", [k \in {key} \cup Range(others) |->
                               IF k = key THEN value ELSE Py("int", 1)])
    /\ nesting' = nesting + 1
    /\ UNCHANGED <<setupVars, ctxVars, reqVars, text, restored, phase, client>>

\* text = serializer.dumps(value)
Dumps ==
    /\ phase = "value"
    /\ text' = TaggedJSONSerializer_dumps(value)
    /\ phase' = "dumped"
    /\ UNCHANGED <<setupVars, ctxVars, reqVars, value, nesting, restored, client>>

\* restored = serializer.loads(text)
Loads ==
    /\ phase = "dumped"
    /\ restored' = TaggedJSONSerializer_loads(text)
    /\ phase' = "loaded"
    /\ UNCHANGED <<setupVars, ctxVars, reqVars, value, nesting, text, client>>

NextTag ==
    \/ \E siblings \in Siblings : WrapList(siblings)
    \/ \E siblings \in Siblings : WrapTuple(siblings)
    \/ \E key \in DictKeys, others \in Others : WrapDict(key, others)
    \/ Dumps
    \/ Loads

InitValue ==
    /\ InitApp(ModServe, FALSE, TRUE)
    /\ InitCtx
    /\ value \in Leaves
    /\ nesting = 0
    /\ text = json_dumps(PyNone)
    /\ restored = PyNone
    /\ phase = "value"

SpecTag == InitValue /\ [][NextTag]_vars

\* --------------------------------------------------------------------------
\* Properties of the contexts
\* --------------------------------------------------------------------------
Max(S) == CHOOSE n \in S : \A m \in S : m <= n
HasEvent(l, ev) == \E i \in 1..Len(l) : l[i].ev = ev

\* C1: within one thread, after any well-nested sequence of pushes and pops,
\* current_app and g resolve to the app and g of the AppContext pushed last
\* and not yet popped, request and session to those of the RequestContext
\* pushed last and not yet popped; when no such context remains the proxies
\* are unbound and has_app_context() / has_request_context() are False.
C1_ProxiesResolveToTop ==
    \A t \in Threads :
        LET s == stack[t]
            ai == {i \in 1..Len(s) : s[i].pushed # NoCtx}
            ri == {i \in 1..Len(s) : s[i].kind = "request"}
        IN  /\ IF ai = {}
               THEN ~has_app_context(t) /\ current_app(t) = Unbound
               ELSE /\ has_app_context(t)
                    /\ g(t) = s[Max(ai)].pushed
                    /\ current_app(t) = s[Max(ai)].app
            /\ IF ri = {}
               THEN ~has_request_context(t) /\ session(t) = NoSession
               ELSE /\ has_request_context(t)
                    /\ request(t) = s[Max(ri)].id
                    /\ session(t).of = s[Max(ri)].id

\* A thread has popped a RequestContext pushed inside an AppContext of the
\* other application, which is current again, while another thread is
\* inside a RequestContext.
C1_Witness ==
    \E t, u \in Threads :
        /\ t # u
        /\ log[t] # <<>> /\ log[t][1].ev = "pop"
        /\ HasEvent(log[t], "do_teardown_request")
        /\ HasEvent(log[t], "do_teardown_appcontext")
        /\ Len(stack[t]) = 1
        /\ current_app(t) = "other"
        /\ ~has_request_context(t)
        /\ has_request_context(u)

\* C2: under any interleaving of wsgi_app calls in different threads, a
\* context pushed by one handler is never observable through current_app, g,
\* request or session in another handler; from its ctx.push() to its
\* ctx.pop() each handler's request proxy resolves to its own RequestContext.
C2_HandlersIsolated ==
    \A t \in Threads :
        pc[t] # "idle" =>
            /\ request(t) = cur[t].ctx
            /\ session(t).of = cur[t].ctx
            /\ current_app(t) = "app"
            /\ \A u \in Threads \ {t} :
                   \A i \in 1..Len(stack[u]) :
                       /\ request(t) # stack[u][i].id
                       /\ g(t) # stack[u][i].pushed
                       /\ session(t).of # stack[u][i].id

\* Two handlers are between push and pop at different stages, one of them
\* inside an application context of the other application.
C2_Witness ==
    /\ pc["t1"] = "pop"
    /\ pc["t2"] = "dispatch_request"
    /\ Len(stack["t1"]) = 2
    /\ stack["t1"][1].app = "other"

\* --------------------------------------------------------------------------
\* Properties of a request
\* --------------------------------------------------------------------------
Count(l, ev) == Cardinality({i \in 1..Len(l) : l[i].ev = ev})
IsWsgiLog(l) == l # <<>> /\ l[1].ev = "wsgi_app"
Finished(l) == IsWsgiLog(l) /\ Last(l).ev = "return"

\* The lifecycle stage an event belongs to (0: none)
Stage(ev) ==
    CASE ev \in {"push", "appcontext_pushed"} -> 1
      [] ev = "request_started" -> 2
      [] ev \in {"url_value_preprocessor", "before_request_func"} -> 3
      [] ev \in {"dispatch_request", "view"} -> 4
      [] ev \in {"handle_user_exception", "handle_exception",
                 "got_request_exception", "errorhandler"} -> 5
      [] ev \in {"finalize_request", "make_response", "after_request_func",
                 "after_this_request_func",
                 "save_session", "request_finished"} -> 6
      [] ev \in {"do_teardown_request", "teardown_request_func",
                 "request_tearing_down", "request_close"} -> 7
      [] ev \in {"do_teardown_appcontext", "teardown_appcontext_func",
                 "appcontext_tearing_down", "appcontext_popped"} -> 8
      [] OTHER -> 0

\* C3 as stated: the stages of every request occur in the order push,
\* request_started, preprocess, dispatch, error handling, finalize, teardown.
C3_AsStated ==
    \A t \in Threads :
        IsWsgiLog(log[t]) =>
            \A i, j \in 1..Len(log[t]) :
                (i < j /\ Stage(log[t][i].ev) # 0 /\ Stage(log[t][j].ev) # 0)
                    => Stage(log[t][i].ev) <= Stage(log[t][j].ev)

\* C3: the stages of every request occur in the order push, request_started,
\* preprocess, dispatch, error handling, finalize, teardown_request functions,
\* teardown_appcontext functions, except that when finalize raises,
\* handle_exception runs after it (and finalize may run a second time);
\* handle_user_exception and handle_exception run at most once each and
\* finalize at most twice.
C3_StageOrder ==
    \A t \in Threads :
        LET l == log[t] IN
        IsWsgiLog(l) =>
            /\ \A i, j \in 1..Len(l) :
                 (i < j /\ Stage(l[i].ev) # 0 /\ Stage(l[j].ev) # 0
                        /\ Stage(l[i].ev) > Stage(l[j].ev))
                    => /\ Stage(l[i].ev) = 6
                       /\ l[j].ev \in {"handle_exception", "got_request_exception",
                                       "errorhandler"}
                       /\ \E k \in (i + 1)..(j - 1) :
                              /\ l[k].ev = "raised"
                              /\ l[k + 1].ev = "handle_exception"
            /\ Count(l, "handle_user_exception") <= 1
            /\ Count(l, "handle_exception") <= 1
            /\ Count(l, "finalize_request") <= 2

\* A finished request in which an after_request function raised: finalize,
\* handle_exception, finalize again, then both teardowns.
C3_Witness ==
    \E t \in Threads :
        /\ Finished(log[t])
        /\ Count(log[t], "finalize_request") = 2
        /\ Count(log[t], "handle_exception") = 1
        /\ HasEvent(log[t], "view")
        /\ HasEvent(log[t], "teardown_request_func")
        /\ HasEvent(log[t], "teardown_appcontext_func")

\* No teardown function raised while the context was popped.
TeardownsReturned(l) ==
    \A i \in 1..Len(l) : l[i].ev = "pop" =>
        \A j \in (i + 1)..Len(l) : l[j].ev # "raised"

\* C4 as stated: do_teardown_request and do_teardown_appcontext are each
\* invoked exactly once before control leaves wsgi_app.
C4_AsStated ==
    \A t \in Threads :
        (Finished(log[t]) /\ TeardownsReturned(log[t])) =>
            /\ Count(log[t], "do_teardown_request") = 1
            /\ Count(log[t], "do_teardown_appcontext") = 1

\* C4: before control leaves wsgi_app, whatever the outcome,
\* do_teardown_request is invoked exactly once, and do_teardown_appcontext
\* exactly once when ctx.push() pushed an application context of its own,
\* not at all when an application context of the same application was
\* already current.
C4_TeardownOnce ==
    \A t \in Threads :
        (Finished(log[t]) /\ TeardownsReturned(log[t])) =>
            /\ Count(log[t], "do_teardown_request") = 1
            /\ Count(log[t], "do_teardown_appcontext") =
                   Count(log[t], "appcontext_pushed")
            /\ Count(log[t], "appcontext_pushed") =
                   IF stack[t] # <<>> /\ Last(stack[t]).app = "app" THEN 0 ELSE 1

\* An exception propagated out of wsgi_app and both teardowns ran once.
C4_Witness ==
    \E t \in Threads :
        /\ Finished(log[t])
        /\ cur[t].exc = "AppError"
        /\ cur[t].error = "AppError"
        /\ Count(log[t], "do_teardown_request") = 1
        /\ Count(log[t], "do_teardown_appcontext") = 1

\* C6: once full_dispatch_request has set _got_first_request, a call of any
\* setup method on the app raises AssertionError and leaves url_map,
\* view_functions and every hook table unchanged.
C6_AppSetupFinished ==
    [][(IsCall /\ result'.on = "app" /\ app._got_first_request)
          => (result'.exc = "AssertionError" /\ app' = app /\ bps' = bps)]_vars

\* A setup method was called on the app after its first request and raised.
C6_Witness ==
    /\ app._got_first_request
    /\ nsetup = 1
    /\ result.on = "app"
    /\ result.call.op = "add_url_rule"
    /\ result.exc = "AssertionError"
    /\ Finished(log["t1"])

\* C9: as soon as a before_request function returns a value other than None,
\* no further before_request function is called, the view function is not
\* called, and that value is what full_dispatch_request passes to
\* finalize_request.
C9_BeforeRequestShortCircuit ==
    \A t \in Threads :
        LET l == log[t] IN
        \A i \in 1..Len(l) :
            (IsWsgiLog(l) /\ l[i].ev = "before_request_func" /\ l[i].arg = "value") =>
                /\ \A j \in (i + 1)..Len(l) :
                       l[j].ev \notin {"before_request_func", "view",
                                       "dispatch_request", "handle_user_exception"}
                /\ ~HasEvent(l, "view")
                /\ pc[t] # "dispatch_request"
                /\ i = Len(l) =>
                       /\ pc[t] = "finalize_request"
                       /\ cur[t].rv = [kind |-> "value", src |-> "before_request_func",
                                       by |-> l[i].f]
                /\ i < Len(l) =>
                       l[i + 1] = [ev |-> "finalize_request",
                                   key |-> <<"before_request_func">>,
                                   f |-> l[i].f, arg |-> "value"]

\* A request ended by a before_request function: a function registered
\* before it was called, one registered after it was not.
C9_Witness ==
    \E t \in Threads :
        /\ Finished(log[t])
        /\ \E i \in 1..Len(log[t]) :
               /\ log[t][i].ev = "before_request_func"
               /\ log[t][i].arg = "value"
               /\ i > 1 /\ log[t][i - 1].ev = "before_request_func"
        /\ Len(app.before_request_funcs[AppKey]) = 3
        /\ HasEvent(log[t], "request_finished")

\* --------------------------------------------------------------------------
\* Properties of the tagged JSON serializer
\* --------------------------------------------------------------------------
\* C10: for every value built from JSON scalars, lists, tuples, bytes and
\* string-keyed dicts (also dicts whose single key is a registered tag key),
\* loads(dumps(value)) equals value, with the tuple / list / bytes / dict
\* distinction kept at every nesting level.
C10_Lossless == phase = "loaded" => restored = value

\* A dict whose single key is the tag key " t" and whose value is a tuple
\* of bytes was dumped as a tagged object and loaded back.
C10_Witness ==
    /\ phase = "loaded"
    /\ value = Py("dict", [k \in {Str(<<" ", "t">>)} |->
                              Py("tuple", <<Py("bytes", "hi")>>)])
    /\ text[1] = "object"
    /\ DOMAIN text[2] = {Str(<<" ", "d", "i">>)}
    /\ restored = value

OnceFuncs == {F2}

\* C12: when a call of app.register_blueprint succeeds, every blueprint it
\* registers under a new name has each function recorded with record called
\* once with that registration, in recording order, and each function
\* recorded with record_once called only if the blueprint was not registered
\* on the application under any name before.
C12_RecordOnce ==
    [][(/\ IsCall
        /\ result'.on = "app"
        /\ result'.call.op = "register_blueprint"
        /\ result'.exc = None)
       => \A n \in (DOMAIN app'.blueprints) \ (DOMAIN app.blueprints) :
             LET c == app'.blueprints[n]
                 first == ~ \E k \in DOMAIN app.blueprints : app.blueprints[k] = c
                 new == SubSeq(called', Len(called) + 1, Len(called'))
                 mine == SelectSeq(new, LAMBDA e : e.name = n)
                 recorded == SelectSeq(bps[c].deferred_functions,
                                       LAMBDA d : /\ d.kind = "record"
                                                  /\ (d.f \in OnceFuncs => first))
             IN  mine = [i \in 1..Len(recorded) |->
                            [f |-> recorded[i].f.name, name |-> n]]]_vars
\* The blueprint "parent", registered before under its own name, has been
\* registered again as "alt": its record function ran for both
\* registrations, its record_once function for the first one only.
C12_Witness ==
    /\ RegisterSucceeded
    /\ nsetup > 0
    /\ result.call.bp = "parent"
    /\ RegisteredName(result.call) = <<"alt">>
    /\ Has(app.blueprints, <<"parent">>)
    /\ app.blueprints[<<"parent">>] = "parent"
    /\ \E i, j \in 1..Len(called) :
           /\ called[i] = [f |-> "g", name |-> <<"parent">>]
           /\ called[j] = [f |-> "f", name |-> <<"alt">>]
    /\ \A i \in 1..Len(called) : called[i] # [f |-> "g", name |-> <<"alt">>]
    /\ \E i \in 1..Len(bps["parent"].deferred_functions) :
           LET d == bps["parent"].deferred_functions[i]
           IN  d.kind = "record" /\ d.f \in OnceFuncs

\* C13: a call of app.add_url_rule with a view function raises
\* AssertionError when its endpoint is mapped in view_functions to a
\* different function, and otherwise succeeds and maps the endpoint to the
\* function; no add_url_rule call changes the function of a mapped endpoint.
C13_ViewFunctionKept ==
    [][(IsCall /\ result'.call.op = "add_url_rule")
       => /\ \A k \in DOMAIN app.view_functions :
                /\ Has(app'.view_functions, k)
                /\ app'.view_functions[k] = app.view_functions[k]
          /\ (result'.on = "app" /\ result'.call.f # NoFunc)
             => LET c == result'.call
                    ep == IF c.endpoint = NoName THEN endpoint_from_view_func(c.f)
                          ELSE c.endpoint
                    old == GetOr(app.view_functions, ep, NoFunc)
                IN  IF old # NoFunc /\ old # c.f
                    THEN result'.exc = "AssertionError"
                    ELSE /\ result'.exc = None
                         /\ Has(app'.view_functions, ep)
                         /\ app'.view_functions[ep] = c.f]_vars
\* add_url_rule was refused a second function for the endpoint "x", which
\* keeps its function.
C13_Witness ==
    /\ nsetup > 0
    /\ result.on = "app"
    /\ result.call.op = "add_url_rule"
    /\ result.call.endpoint = <<"x">>
    /\ result.call.f = F2
    /\ result.exc = "AssertionError"
    /\ Has(app.view_functions, <<"x">>)
    /\ app.view_functions[<<"x">>] = F1

\* C14: a FlaskClient cannot be nested and preserves the contexts of at most
\* one request: while open() sends a request no context is preserved, and
\* the contexts that the client holds entered all come from one request.
C14_OneRequestPreserved ==
    /\ client.opening => client.context_stack = <<>>
    /\ Cardinality({client.context_stack[i].id :
                       i \in {j \in 1..Len(client.context_stack) :
                                 client.context_stack[j].kind = "request"}}) <= 1

\* The calls of kind ev in a trace, and the names of those made for one key
CallsOf(l, evs) == SelectSeq(l, LAMBDA e : e.ev \in evs)
NamesOf(l, ev, key) ==
    LET c == SelectSeq(l, LAMBDA e : e.ev = ev /\ e.key = key)
    IN  [i \in 1..Len(c) |-> c[i].f]
FuncNames(table, key) ==
    LET fs == GetOr(table, key, <<>>) IN [i \in 1..Len(fs) |-> fs[i].name]
IsPrefix(s, q) == Len(s) <= Len(q) /\ s = SubSeq(q, 1, Len(s))
ChildEndpoint == <<"parent", "child", "later">>
OrderEv(ev, key, n) == [ev |-> ev, key |-> key, f |-> n, arg |-> "none"]
PreprocessOrder ==
    <<OrderEv("url_value_preprocessor", AppKey, "a1"),
      OrderEv("url_value_preprocessor", AppKey, "a2"),
      OrderEv("url_value_preprocessor", <<"parent">>, "p1"),
      OrderEv("url_value_preprocessor", <<"parent">>, "p2"),
      OrderEv("url_value_preprocessor", <<"parent", "child">>, "c1"),
      OrderEv("url_value_preprocessor", <<"parent", "child">>, "c2"),
      OrderEv("before_request_func", AppKey, "a1"),
      OrderEv("before_request_func", AppKey, "a2"),
      OrderEv("before_request_func", <<"parent">>, "p1"),
      OrderEv("before_request_func", <<"parent">>, "p2"),
      OrderEv("before_request_func", <<"parent", "child">>, "c1"),
      OrderEv("before_request_func", <<"parent", "child">>, "c2")>>

\* C15: preprocess_request calls every URL value preprocessor before any
\* before_request function, each group for the keys in the order application,
\* outer blueprint, nested blueprint, and the functions of one key in the
\* order of their registration; for the request to the view of blueprint
\* "parent.child" with two functions of each kind on every level the calls
\* are exactly a1 a2 p1 p2 c1 c2 of the preprocessors, then of before_request.
C15_PreprocessOrder ==
    \A t \in Threads :
        LET l == log[t]
            pre == CallsOf(l, {"url_value_preprocessor", "before_request_func"})
        IN  IsWsgiLog(l) =>
            /\ \A i, j \in 1..Len(pre) :
                   i < j =>
                   /\ pre[i].ev = "before_request_func" =>
                          pre[j].ev = "before_request_func"
                   /\ pre[i].ev = pre[j].ev => Len(pre[i].key) <= Len(pre[j].key)
            /\ \A key \in {AppKey, <<"parent">>, <<"parent", "child">>} :
                   /\ IsPrefix(NamesOf(l, "url_value_preprocessor", key),
                               FuncNames(app.url_value_preprocessors, key))
                   /\ IsPrefix(NamesOf(l, "before_request_func", key),
                               FuncNames(app.before_request_funcs, key))
            /\ (Has(app.view_functions, ChildEndpoint) /\ HasEvent(l, "view")
                   /\ pc[t] # "idle") =>
                   pre = IF reqctxs[cur[t].ctx].url_rule = ChildEndpoint
                         THEN PreprocessOrder
                         ELSE SelectSeq(PreprocessOrder, LAMBDA e : e.key = AppKey)

\* The view of the nested blueprint was called after all twelve functions.
C15_Witness ==
    \E t \in Threads :
        /\ Finished(log[t])
        /\ CallsOf(log[t], {"url_value_preprocessor", "before_request_func"})
               = PreprocessOrder
        /\ \E i \in 1..Len(log[t]) :
               log[t][i].ev = "view" /\ log[t][i].f = "later"

\* The part of a trace from its last call of finalize_request on
RECURSIVE SinceFinalize(_)
SinceFinalize(l) ==
    IF l = <<>> THEN <<>>
    ELSE IF HasEvent(Tail(l), "finalize_request") THEN SinceFinalize(Tail(l))
    ELSE IF Head(l).ev = "finalize_request" THEN l
    ELSE <<>>
AfterEvs == {"after_this_request_func", "after_request_func"}
GotEv(ev, key, n, got) == [ev |-> ev, key |-> key, f |-> n, arg |-> got]
AppResponseOrder(first) ==
    <<GotEv("after_request_func", AppKey, "a2", first),
      GotEv("after_request_func", AppKey, "a1", "a2")>>
ResponseOrder ==
    <<GotEv("after_this_request_func", NoName, "later1", "later"),
      GotEv("after_this_request_func", NoName, "later2", "later1"),
      GotEv("after_request_func", <<"parent", "child">>, "c2", "later2"),
      GotEv("after_request_func", <<"parent", "child">>, "c1", "c2"),
      GotEv("after_request_func", <<"parent">>, "p2", "c1"),
      GotEv("after_request_func", <<"parent">>, "p1", "p2")>> \o
    AppResponseOrder("p1")

\* C16: process_response first calls the functions that after_this_request
\* put on the request context of this request, in the order they were added,
\* then the after_request functions of the blueprints from the innermost to
\* the outermost, then those of the application, every list in reverse
\* registration order, and passes to each function the response the previous
\* one returned.  For the view of "parent.child" that adds later1 and later2
\* the calls are later1 later2 c2 c1 p2 p1 a2 a1; for a request to a view of
\* the application, on another request context, they are a2 a1.
C16_ResponseOrder ==
    \A t \in Threads :
        LET l == SinceFinalize(log[t])
            post == CallsOf(l, AfterEvs)
        IN  IsWsgiLog(log[t]) =>
            /\ \A i, j \in 1..Len(post) :
                   i < j =>
                   /\ post[j].ev = "after_this_request_func" =>
                          post[i].ev = "after_this_request_func"
                   /\ post[i].ev = post[j].ev => Len(post[i].key) >= Len(post[j].key)
            /\ \A key \in {AppKey, <<"parent">>, <<"parent", "child">>} :
                   IsPrefix(NamesOf(l, "after_request_func", key),
                            Rev(FuncNames(app.after_request_funcs, key)))
            /\ (pc[t] # "idle" /\ cur[t].ctx # NoCtx) =>
                   IsPrefix(NamesOf(l, "after_this_request_func", NoName),
                            FuncNames([k \in {NoName} |->
                                reqctxs[cur[t].ctx].after_request_functions], NoName))
            /\ (Has(app.view_functions, ChildEndpoint) /\ pc[t] = "pop"
                   /\ HasEvent(l, "request_finished")) =>
                   /\ post = IF reqctxs[cur[t].ctx].url_rule = ChildEndpoint
                             THEN ResponseOrder
                             ELSE AppResponseOrder(l[1].f)
                   /\ cur[t].response.by = "a1"

\* The request to the view of the nested blueprint was answered with the
\* response made by the last of the eight functions.
C16_Witness ==
    \E t \in Threads :
        /\ pc[t] = "pop"
        /\ CallsOf(log[t], AfterEvs) = ResponseOrder
        /\ cur[t].response.by = "a1"
        /\ HasEvent(log[t], "request_finished")

TeardownEvs == {"teardown_request_func", "request_tearing_down", "request_close",
                "teardown_appcontext_func"}
AppTeardownRequestOrder ==
    <<OrderEv("teardown_request_func", AppKey, "a2"),
      OrderEv("teardown_request_func", AppKey, "a1"),
      Ev("request_tearing_down"), Ev("request_close")>>
TeardownRequestOrder ==
    <<OrderEv("teardown_request_func", <<"parent", "child">>, "c2"),
      OrderEv("teardown_request_func", <<"parent", "child">>, "c1"),
      OrderEv("teardown_request_func", <<"parent">>, "p2"),
      OrderEv("teardown_request_func", <<"parent">>, "p1")>> \o
    AppTeardownRequestOrder
TeardownAppcontextOrder ==
    <<OrderEv("teardown_appcontext_func", AppKey, "a2"),
      OrderEv("teardown_appcontext_func", AppKey, "a1")>>

\* C17: when wsgi_app pops the request context, the teardown_request
\* functions are called from the innermost blueprint of the request out to
\* the application, every list in reverse registration order; then the
\* request_tearing_down signal is sent, then the request is closed, and the
\* teardown_appcontext functions, in reverse registration order, are called
\* after that, and only if the request context had pushed an application
\* context.  For the view of "parent.child" the calls are c2 c1 p2 p1 a2 a1,
\* signal, close, a2 a1.
C17_TeardownOrder ==
    \A t \in Threads :
        LET l == log[t]
            td == CallsOf(l, TeardownEvs)
        IN  Finished(l) =>
            /\ \A i, j \in 1..Len(td) :
                   i < j =>
                   /\ td[j].ev = "teardown_request_func" =>
                          /\ td[i].ev = "teardown_request_func"
                          /\ Len(td[i].key) >= Len(td[j].key)
                   /\ td[j].ev = "request_tearing_down" =>
                          td[i].ev = "teardown_request_func"
                   /\ td[i].ev = "teardown_appcontext_func" =>
                          td[j].ev = "teardown_appcontext_func"
            /\ \A key \in {AppKey, <<"parent">>, <<"parent", "child">>} :
                   IsPrefix(NamesOf(l, "teardown_request_func", key),
                            Rev(FuncNames(app.teardown_request_funcs, key)))
            /\ NamesOf(l, "teardown_appcontext_func", AppKey) =
                   IF HasEvent(l, "appcontext_pushed")
                   THEN Rev([i \in 1..Len(app.teardown_appcontext_funcs) |->
                                app.teardown_appcontext_funcs[i].name])
                   ELSE <<>>
            /\ Has(app.view_functions, ChildEndpoint) =>
                   td = (IF \E i \in 1..Len(l) : l[i].ev = "view" /\ l[i].f = "later"
                         THEN TeardownRequestOrder ELSE AppTeardownRequestOrder)
                        \o (IF HasEvent(l, "appcontext_pushed")
                            THEN TeardownAppcontextOrder ELSE <<>>)

\* The request to the view of the nested blueprint, in an application
\* context of its own, has been torn down.
C17_Witness ==
    \E t \in Threads :
        /\ Finished(log[t])
        /\ CallsOf(log[t], TeardownEvs) =
               TeardownRequestOrder \o TeardownAppcontextOrder
        /\ HasEvent(log[t], "appcontext_popped")

\* C18: process_response calls save_session after the last after_request
\* function; when process_response returns, save_session has been called
\* exactly if the session of the request is not a null session; and what is
\* saved is the session as the after_request functions left it: a key set by
\* an after_request function is in the cookie that is set.
C18_SavedAfterResponseFunctions ==
    \A t \in Threads :
        LET l == SinceFinalize(log[t]) IN
        IsWsgiLog(log[t]) =>
            /\ \A i, j \in 1..Len(l) :
                   (l[i].ev = "save_session" /\ l[j].ev \in AfterEvs) => j < i
            /\ (pc[t] = "pop" /\ HasEvent(l, "request_finished")) =>
                   /\ HasEvent(l, "save_session") <=> ~is_null_session(session(t))
                   /\ cur[t].saved =
                          IF is_null_session(session(t)) THEN NotSaved
                          ELSE save_session(session(t))
                   /\ (\E i \in 1..Len(l) :
                          l[i].ev = "after_request_func" /\ l[i].arg = "__setitem__") =>
                          /\ cur[t].saved.action = "set_cookie"
                          /\ cur[t].saved.data = [x \in {SessionK} |-> SessionV]
                          /\ cur[t].saved.vary

\* A request whose cookie held another value for the key was answered after
\* an after_request function had set the key, and a function ran before and
\* one after that function.
C18_Witness ==
    /\ pc["t1"] = "pop"
    /\ HasEvent(log["t1"], "request_finished")
    /\ reqctxs[cur["t1"].ctx].cookie = SessionCookie(StoredData)
    /\ \E i \in 2..(Len(log["t1"]) - 2) :
           /\ log["t1"][i].ev = "after_request_func"
           /\ log["t1"][i].arg = "__setitem__"
           /\ log["t1"][i - 1].ev = "after_request_func"
           /\ log["t1"][i + 1].ev = "after_request_func"
           /\ log["t1"][i + 2].ev = "save_session"
    /\ cur["t1"].saved.action = "set_cookie"

====
